---- MODULE Spec2Model ----
(***************************************************************************)
(* The page-by-page extraction pipeline of src/src/workflow.py (class      *)
(* Workflow) as a state machine.  One action per graph node; a node that   *)
(* awaits handle_quota is split at the asyncio.sleep, and the retry loop   *)
(* of _extract_each_page_questions_step takes one step per attempt.        *)
(* The inference collaborator is nondeterministic: each call returns one   *)
(* of a small set of conforming responses.                                 *)
(***************************************************************************)
EXTENDS Integers, Sequences, FiniteSets, TLC

VARIABLES
    workflow,                 \* the orchestrator class of the instance
    exam_images,              \* number of page images of the run (ExtractionState.exam_images)
    node,                     \* graph node about to execute, "END" or "FAILED"
    error,                    \* exception that aborted the run, "" when none
    current_phase,            \* ExtractionState.current_phase
    current_page_index,       \* ExtractionState.current_page_index
    pages_text,               \* ExtractionState.pages_text
    pages_text_concatenated,  \* ExtractionState.pages_text_concatenated
    pages_questions_map,      \* ExtractionState.pages_questions_map
    pages_questions_text_map, \* ExtractionState.pages_questions_text_map
    pages_clinical_cases_map, \* ExtractionState.pages_clinical_cases_map
    exam_questions,           \* ExtractionState.exam_questions
    gLlmCalls,                \* Workflow.gLlmCalls
    max_quota,                \* Workflow.max_quota
    sleep_remaining,          \* time left in the asyncio.sleep of handle_quota
    concatenated_pages_text,  \* local of _extract_questions_using_numbers_step
    retryCount,               \* local of _extract_each_page_questions_step
    hasFailed,                \* local of _extract_each_page_questions_step
    missingQuestions,         \* local of _extract_each_page_questions_step
    response,                 \* local: the value returned by the awaited call
    loop_pc,                  \* position in _extract_each_page_questions_step
    total_prev_questions,     \* local of _extract_questions_text_step
    document,                 \* the DocumentExtractionState of a GeminiWorkflow run
    issued,                   \* history: inference calls answered so far, per stage
    provenance,               \* history: page and kind of each exam_questions entry
    merges,                   \* history: what each reconciliation merged, in order
    attempts,                 \* history: per attempt of the page in hand, did its count match
    stripped,                 \* history: page texts before and after clinical-case stripping
    reviewed,                 \* history: pages whose number list the review has stored
    returned,                 \* history: numbers returned by each attempt of the page in hand
    review,                   \* history: corrective feedback carried by the latest attempt
    steps,                    \* graph nodes the engine has executed in this run
    result,                   \* what the caller of run() got back
    runs                      \* calls of run() on the instance so far

vars == <<workflow, document, issued, exam_images, node, error, current_phase, current_page_index, pages_text,
          pages_text_concatenated, pages_questions_map, pages_questions_text_map,
          pages_clinical_cases_map, exam_questions, gLlmCalls, max_quota,
          sleep_remaining, concatenated_pages_text, retryCount, hasFailed,
          missingQuestions, response, loop_pc, total_prev_questions, provenance,
          merges, attempts, stripped, reviewed, returned, review, steps, result,
          runs>>

(***************************************************************************)
(* Bounds of the model and constants of the program.                       *)
(***************************************************************************)
MaxPages == 3
MaxQuota == 3
\* A page count beyond the step ceiling; its calls are answered in one way.
LongPages == 16
MaxRuns == 2

time_to_wait == 30
MaxQuestionNumbers == 8
RetryBudget == 3
FillingOptionsCount == 5
GapLimit == 8
FillLimit == 8
recursion_limit == 120

(***************************************************************************)
(* Values.                                                                 *)
(***************************************************************************)
\* f"{current_page_index}": the decimal string used as a dictionary key.
PageKey(i) ==
    <<"0", "1", "2", "3", "4", "5", "6", "7", "8", "9", "10", "11", "12", "13",
      "14", "15", "16", "17", "18", "19">>[i + 1]

\* A PageQuestionsNumbers instance, and the PageQuestionsNumbers class object.
NumbersInstance(nums) == [is_class |-> FALSE, question_numbers |-> nums]
NumbersClass == [is_class |-> TRUE, question_numbers |-> <<>>]

Question(question, options, number) ==
    [question |-> question, options |-> options, number |-> number]

NoResponse == <<>>

RECURSIVE SumLens(_, _)
\* sum(len(map[str(i)].question_numbers) for i in range(n) if str(i) in map)
SumLens(map, n) ==
    IF n = 0 THEN 0
    ELSE SumLens(map, n - 1)
         + (IF PageKey(n - 1) \in DOMAIN map
            THEN Len(map[PageKey(n - 1)].question_numbers) ELSE 0)

\* a + "\n" + b
JoinNL(a, b) == a \o <<"\n">> \o b

\* Mutant: the texts are joined without separator.
RECURSIVE JoinAll_NoSeparator(_)
JoinAll_NoSeparator(texts) ==
    IF Len(texts) = 0 THEN <<>>
    ELSE texts[1] \o JoinAll_NoSeparator(Tail(texts))

RECURSIVE JoinAll(_)
\* "\n".join(texts)
JoinAll(texts) ==
    IF Len(texts) = 0 THEN <<>>
    ELSE IF Len(texts) = 1 THEN texts[1]
    ELSE JoinNL(texts[1], JoinAll(Tail(texts)))

\* [x for x in xs if x not in ys]
RECURSIVE NotIn(_, _)
NotIn(xs, ys) ==
    IF xs = <<>> THEN <<>>
    ELSE (IF \E k \in 1..Len(ys) : ys[k] = xs[1] THEN <<>> ELSE <<xs[1]>>)
         \o NotIn(Tail(xs), ys)

\* [question.number for question in response.questions]
Numbers(questions) == [k \in 1..Len(questions) |-> questions[k].number]

(***************************************************************************)
(* The responses the inference collaborator can give.                      *)
(***************************************************************************)
\* The collaborator answers every call of a long document, and of every run
\* after the first of an instance, in one way.
Terse == exam_images > MaxPages \/ runs > 1

LongList == <<1, 2, 3, 4, 5, 6, 7, 8, 9>>

\* Question-number lists returned for page i by detection and by review.
NumberChoices(i) ==
    IF Terse THEN {IF i % 2 = 0 THEN <<1, 2, 3>> ELSE <<4, 5>>}
    ELSE IF i % 2 = 0 THEN {<<1, 2, 3>>, <<5, 6, 7>>, LongList}
    ELSE {<<>>, <<4, 5>>, <<9>>}

\* Text returned for page i by the page-text call, and by the stripping call.
PageTextChoices(i) ==
    {<< <<"p0", "p1", "p2", "p3", "p4", "p5", "p6", "p7", "p8", "p9", "p10",
          "p11", "p12", "p13", "p14", "p15", "p16", "p17", "p18", "p19">>[i + 1] >>}
StrippedTextChoices(i) == {<< <<"s0", "s1", "s2", "s3", "s4">>[i + 1] >>}

\* Narrative blocks returned by clinical-case detection.
ClinicalCasesChoices == IF Terse THEN {<<>>} ELSE {<<>>, <<"case">>}

\* The question-text bucket returned by the windowed extraction.
QuestionsTextChoices == {<<"questions">>}

RealQuestions(nums) == [k \in 1..Len(nums) |-> Question("q", <<[option |-> "a"], [option |-> "b"]>>, nums[k])]

\* Question lists returned by one parse attempt for a page expecting `expected`:
\* all of them, all but the last, none, one too many, and, for the list
\* [1,2,3], as many with another number in the place of the last.
AttemptChoices(expected) ==
    IF Terse THEN {RealQuestions(expected)}
    ELSE { RealQuestions(expected),
           RealQuestions(IF expected = <<>> THEN <<>> ELSE SubSeq(expected, 1, Len(expected) - 1)),
           RealQuestions(<<>>),
           RealQuestions(Append(expected, 20)),
           RealQuestions(IF expected = <<1, 2, 3>> THEN <<1, 2, 20>> ELSE expected) }

(***************************************************************************)
(* The graph of _build_workflow.                                           *)
(***************************************************************************)
\* graph.add_node(...)
nodes ==
    {"start", "extract_page_text", "extract_questions_numbers",
     "review_questions_numbers", "advance_page", "extract_clinical_cases",
     "remove_clinical_cases_from_page_text", "concatenate_pages_text",
     "extract_questions_using_numbers", "extract_each_page_questions"}

\* graph.add_edge(source, target)
edges ==
    [start |-> "extract_page_text",
     extract_page_text |-> "review_page_text",
     review_page_text |-> "extract_questions_numbers",
     extract_questions_numbers |-> "review_questions_numbers",
     review_questions_numbers |-> "extract_clinical_cases",
     concatenate_pages_text |-> "extract_questions_using_numbers",
     extract_questions_using_numbers |-> "extract_each_page_questions"]

\* The node the engine runs after `n`: the target of n's edge.  The target
\* "review_page_text" is no registered node (its add_node is commented out):
\* no stage runs for it and the engine follows its edge in turn.
Successor(n) ==
    IF edges[n] \in nodes THEN edges[n] ELSE edges[edges[n]]

\* Mutant: a last page without clinical case goes to the page advance.
AfterClinicalCases_AdvanceLast(index, images, cases_map) ==
    LET cases == IF PageKey(index) \in DOMAIN cases_map
                 THEN cases_map[PageKey(index)] ELSE <<>>
    IN IF Len(cases) > 0 /\ index < images - 1
       THEN "remove_clinical_cases_from_page_text"
       ELSE IF Len(cases) <= 0 THEN "advance_page"
       ELSE "concatenate_pages_text"

\* Mutant: a page with clinical cases is never stripped.
AfterClinicalCases_NeverStrip(index, images, cases_map) ==
    IF index < images - 1 THEN "advance_page" ELSE "concatenate_pages_text"

\* Mutant: the first page with a clinical case ends the metadata pass.
AfterClinicalCases_EndsPass(index, images, cases_map) ==
    LET cases == IF PageKey(index) \in DOMAIN cases_map
                 THEN cases_map[PageKey(index)] ELSE <<>>
    IN IF Len(cases) > 0 THEN "concatenate_pages_text"
       ELSE IF index < images - 1 THEN "advance_page"
       ELSE "concatenate_pages_text"

\* Mutant: a page with clinical cases is stripped even when it is the last.
AfterClinicalCases_StripLast(index, images, cases_map) ==
    LET cases == IF PageKey(index) \in DOMAIN cases_map
                 THEN cases_map[PageKey(index)] ELSE <<>>
    IN IF Len(cases) > 0 THEN "remove_clinical_cases_from_page_text"
       ELSE IF index < images - 1 THEN "advance_page"
       ELSE "concatenate_pages_text"

\* add_conditional_edges("extract_clinical_cases", ...)
AfterClinicalCases(index, images, cases_map) ==
    LET cases == IF PageKey(index) \in DOMAIN cases_map
                 THEN cases_map[PageKey(index)] ELSE <<>>
    IN IF Len(cases) > 0 /\ index < images - 1
       THEN "remove_clinical_cases_from_page_text"
       ELSE IF index < images - 1 /\ Len(cases) <= 0
            THEN "advance_page"
            ELSE "concatenate_pages_text"

\* Mutant: the stripping always leads to the page advance.
AfterRemoveClinicalCases_AlwaysAdvance(index, images) == "advance_page"

\* add_conditional_edges("remove_clinical_cases_from_page_text", ...)
AfterRemoveClinicalCases(index, images) ==
    IF index < images - 1 THEN "advance_page" ELSE "concatenate_pages_text"

\* Mutant: the reconciliation always leads to the page advance.
AfterEachPageQuestions_AlwaysAdvance(index, images) == "advance_page"

\* add_conditional_edges("extract_each_page_questions", ...)
AfterEachPageQuestions(index, images) ==
    IF index < images - 1 THEN "advance_page" ELSE "END"

\* add_conditional_edges("advance_page", lambda state: state.current_phase, ...)
AfterAdvancePage(phase) ==
    IF phase = "extract_page_text" THEN "extract_page_text"
    ELSE "extract_questions_using_numbers"

(***************************************************************************)
(* handle_quota.                                                           *)
(***************************************************************************)
\* Mutant: the quota is tested before the counter is incremented.
HandleQuota_TestFirst(calls, quota) ==
    [gLlmCalls |-> calls + 1,
     sleep |-> IF calls % quota = 0 THEN time_to_wait ELSE 0]

\* Mutant: a call that triggers the cooldown is not counted.
HandleQuota_SkipCount(calls, quota) ==
    [gLlmCalls |-> IF (calls + 1) % quota = 0 THEN calls ELSE calls + 1,
     sleep |-> 0]

\* The counter after the call, and the time handle_quota then sleeps.
HandleQuota(calls, quota) ==
    [gLlmCalls |-> calls + 1,
     sleep |-> IF (calls + 1) % quota = 0 THEN time_to_wait ELSE 0]

\* The places that call the inference collaborator (ainvoke / invoke).
CallSites ==
    {"extract_page_text", "extract_questions_numbers", "review_questions_numbers",
     "extract_clinical_cases", "remove_clinical_cases_from_page_text",
     "extract_questions_using_numbers", "extract_each_page_questions",
     "extract_document_text", "review_document_text",
     "questions_markdown_formatter", "questions_markdown_formatter.parse",
     "extract_document_pages_data", "extract_document_clinical_case"}

(***************************************************************************)
(* Initial state: Workflow() constructed, run(exam_images=...) called.     *)
(***************************************************************************)
locals == <<concatenated_pages_text, retryCount, hasFailed, missingQuestions,
            response, loop_pc, total_prev_questions>>
history == <<provenance, merges, attempts, stripped, reviewed, returned, review>>
\* What no step of the page-by-page workflow changes.
config == <<workflow, exam_images, max_quota, document>>
context == <<current_phase, current_page_index, pages_text, pages_text_concatenated,
             pages_questions_map, pages_questions_text_map, pages_clinical_cases_map,
             exam_questions>>

NoResult == [kind |-> "none"]

\* The "review" of the parse prompt when no attempt has failed: "".
NoReview == [failed |-> FALSE]

NoDocument ==
    [questions_raw_text |-> <<>>, questions_markdown_text |-> <<>>,
     questions |-> <<>>, pages_data |-> <<>>, pages_clinical_cases |-> <<>>]

Init ==
    /\ workflow \in {"Workflow", "GeminiWorkflow"}
    /\ document = NoDocument
    /\ issued = [site \in CallSites |-> 0]
    /\ exam_images \in (0..MaxPages) \cup {LongPages - 1, LongPages}
    /\ max_quota = MaxQuota
    /\ node = "start"
    /\ error = ""
    /\ current_phase = "extract_page_text"
    /\ current_page_index = 0
    /\ pages_text = <<>>
    /\ pages_text_concatenated = <<>>
    /\ pages_questions_map = <<>>
    /\ pages_questions_text_map = <<>>
    /\ pages_clinical_cases_map = <<>>
    /\ exam_questions = <<>>
    /\ gLlmCalls = 0
    /\ sleep_remaining = 0
    /\ concatenated_pages_text = <<>>
    /\ retryCount = RetryBudget
    /\ hasFailed = FALSE
    /\ missingQuestions = <<>>
    /\ response = NoResponse
    /\ loop_pc = "idle"
    /\ total_prev_questions = 1
    /\ provenance = <<>>
    /\ merges = <<>>
    /\ attempts = <<>>
    /\ stripped = <<>>
    /\ reviewed = {}
    /\ returned = <<>>
    /\ review = NoReview
    /\ steps = 0
    /\ result = NoResult
    /\ runs = 1

\* Mutant: the engine has no step ceiling.
Engine_NoCeiling ==
    /\ steps' = IF node' # node THEN steps + 1 ELSE steps
    /\ UNCHANGED <<result, runs>>

\* The engine runs a node only below the step ceiling and counts the node
\* when it has run; no node changes what the caller got or starts a run.
Engine ==
    /\ steps < recursion_limit
    /\ steps' = IF node' # node THEN steps + 1 ELSE steps
    /\ UNCHANGED <<result, runs>>

\* An exception leaves the stage: the run is aborted.
Raise(e) ==
    /\ node' = "FAILED"
    /\ error' = e
    /\ UNCHANGED <<issued, config, context, gLlmCalls, sleep_remaining, locals, history>>

\* The inference calls issued so far, after one more by `site`.
Issue(site) == [issued EXCEPT ![site] = @ + 1]

\* Mutant: a step may start while handle_quota sleeps.
Ready_IgnoreSleep(n) == node = n /\ response = NoResponse

Ready(n) == node = n /\ sleep_remaining = 0 /\ response = NoResponse

\* One of the first n stored number values is the class object, whose
\* question_numbers attribute does not exist.
ReadsClass(map, n) ==
    \E i \in 0..(n - 1) : PageKey(i) \in DOMAIN map /\ map[PageKey(i)].is_class

Start ==
    /\ workflow = "Workflow"
    /\ Ready("start")
    /\ node' = Successor("start")
    /\ UNCHANGED <<issued, config, error, context, gLlmCalls, sleep_remaining, locals, history>>
    /\ Engine

(***************************************************************************)
(* Metadata pass.                                                          *)
(***************************************************************************)
\* Mutant: the page under the cursor is taken to exist.
HasPage_Always(index, images) == TRUE

\* current_page_image = state.exam_images[current_page_index] raises
\* IndexError unless the index is below the number of pages.
HasPage(index, images) == index < images

\* Mutant: the start number counts the page before only.
TotalPrevQuestions_LastPageOnly(map, index) ==
    IF index > 0
    THEN (IF PageKey(index - 1) \in DOMAIN map
          THEN Len(map[PageKey(index - 1)].question_numbers) ELSE 0) + 1
    ELSE 1

\* total_prev_questions of _extract_questions_text_step
TotalPrevQuestions(map, index) ==
    IF index > 0 THEN SumLens(map, index) + 1 ELSE 1

\* _extract_questions_text_step, up to and including handle_quota; when
\* handle_quota does not sleep, also the rest of the step.
ExtractPageText ==
    /\ Ready("extract_page_text")
    /\ IF ~HasPage(current_page_index, exam_images)
       THEN Raise("IndexError")
       ELSE IF ReadsClass(pages_questions_map, current_page_index)
       THEN Raise("AttributeError")
       ELSE \E r \in PageTextChoices(current_page_index) :
              LET q == HandleQuota(gLlmCalls, max_quota) IN
              /\ total_prev_questions' =
                     TotalPrevQuestions(pages_questions_map, current_page_index)
              /\ issued' = Issue("extract_page_text")
              /\ gLlmCalls' = q.gLlmCalls
              /\ sleep_remaining' = q.sleep
              /\ IF q.sleep > 0
                 THEN /\ response' = r
                      /\ UNCHANGED <<node, pages_text>>
                 ELSE /\ response' = NoResponse
                      /\ pages_text' = Append(pages_text, r)
                      /\ node' = Successor("extract_page_text")
              /\ UNCHANGED <<config, error, current_phase, current_page_index,
                             pages_text_concatenated, pages_questions_map,
                             pages_questions_text_map, pages_clinical_cases_map,
                             exam_questions, concatenated_pages_text, retryCount,
                             hasFailed, missingQuestions, loop_pc, history>>
    /\ Engine

\* The value _extract_questions_numbers_step stores for the response.
DetectedValue(nums) ==
    IF Len(nums) <= MaxQuestionNumbers THEN NumbersInstance(nums)
    ELSE NumbersInstance(<<>>)

\* The value _review_questions_numbers_step stores for the response: beyond
\* 8 numbers it is the class PageQuestionsNumbers itself, not an instance.
ReviewedValue(nums) ==
    IF Len(nums) <= MaxQuestionNumbers THEN NumbersInstance(nums)
    ELSE NumbersClass

\* _extract_questions_numbers_step
ExtractQuestionsNumbers ==
    /\ Ready("extract_questions_numbers")
    /\ issued' = Issue("extract_questions_numbers")
    /\ \E r \in NumberChoices(current_page_index) :
         pages_questions_map' =
             (PageKey(current_page_index) :> DetectedValue(r)) @@ pages_questions_map
    /\ node' = Successor("extract_questions_numbers")
    /\ UNCHANGED <<config, error, current_phase, current_page_index, pages_text,
                   pages_text_concatenated, pages_questions_text_map,
                   pages_clinical_cases_map, exam_questions, gLlmCalls,
                   sleep_remaining, locals, history>>
    /\ Engine

\* _review_questions_numbers_step
ReviewQuestionsNumbers ==
    /\ Ready("review_questions_numbers")
    /\ issued' = Issue("review_questions_numbers")
    /\ \E r \in NumberChoices(current_page_index) :
         pages_questions_map' =
             (PageKey(current_page_index) :> ReviewedValue(r)) @@ pages_questions_map
    /\ reviewed' = reviewed \cup {current_page_index}
    /\ node' = Successor("review_questions_numbers")
    /\ UNCHANGED <<config, error, current_phase, current_page_index, pages_text,
                   pages_text_concatenated, pages_questions_text_map,
                   pages_clinical_cases_map, exam_questions, gLlmCalls,
                   sleep_remaining, locals, provenance, merges, attempts, stripped,
                   returned, review>>
    /\ Engine

\* _extract_clinical_cases_step, up to and including handle_quota; when
\* handle_quota does not sleep, also the return and the conditional edge.
ExtractClinicalCases ==
    /\ Ready("extract_clinical_cases")
    /\ issued' = Issue("extract_clinical_cases")
    /\ \E r \in ClinicalCasesChoices :
         LET q == HandleQuota(gLlmCalls, max_quota)
             cases_map == (PageKey(current_page_index) :> r) @@ pages_clinical_cases_map
         IN /\ pages_clinical_cases_map' = cases_map
            /\ gLlmCalls' = q.gLlmCalls
            /\ sleep_remaining' = q.sleep
            /\ node' = IF q.sleep > 0 THEN node
                       ELSE AfterClinicalCases(current_page_index, exam_images, cases_map)
    /\ UNCHANGED <<config, error, current_phase, current_page_index, pages_text,
                   pages_text_concatenated, pages_questions_map,
                   pages_questions_text_map, exam_questions, locals, history>>
    /\ Engine

\* Mutant: the rewrite replaces the text of every page.
StrippedText_EveryPage(texts, index, content) ==
    [k \in 1..Len(texts) |-> content]

\* Mutant: the rewrite is dropped and the page keeps its text.
StrippedText_Keep(texts, index, content) == texts

\* state.pages_text[current_page_index] = response.content
StrippedText(texts, index, content) == [texts EXCEPT ![index + 1] = content]

\* _remove_clinical_cases_from_page_text_step
RemoveClinicalCases ==
    /\ Ready("remove_clinical_cases_from_page_text")
    /\ issued' = Issue("remove_clinical_cases_from_page_text")
    /\ \E r \in StrippedTextChoices(current_page_index) :
         /\ pages_text' = StrippedText(pages_text, current_page_index, r)
         /\ stripped' = (current_page_index :>
                            [before |-> pages_text[current_page_index + 1],
                             after |-> r]) @@ stripped
    /\ node' = AfterRemoveClinicalCases(current_page_index, exam_images)
    /\ UNCHANGED <<config, error, current_phase, current_page_index,
                   pages_text_concatenated, pages_questions_map,
                   pages_questions_text_map, pages_clinical_cases_map,
                   exam_questions, gLlmCalls, sleep_remaining, locals,
                   provenance, merges, attempts, reviewed, returned, review>>
    /\ Engine

\* Mutant: the cursor skips a page when two or more remain.
AdvancePageStep_Skip(index, phase, images) ==
    IF index < images - 2
    THEN [current_page_index |-> index + 2, current_phase |-> phase]
    ELSE IF index < images - 1
    THEN [current_page_index |-> index + 1, current_phase |-> phase]
    ELSE [current_page_index |-> index,
          current_phase |-> "extract_each_page_questions"]

\* Mutant: the stage sets the phase whenever it runs.
AdvancePageStep_SetsPhase(index, phase, images) ==
    IF index < images - 1
    THEN [current_page_index |-> index + 1,
          current_phase |-> "extract_each_page_questions"]
    ELSE [current_page_index |-> index,
          current_phase |-> "extract_each_page_questions"]

\* The cursor and the phase _advance_page_step returns.
AdvancePageStep(index, phase, images) ==
    IF index < images - 1
    THEN [current_page_index |-> index + 1, current_phase |-> phase]
    ELSE [current_page_index |-> index,
          current_phase |-> "extract_each_page_questions"]

\* _advance_page_step
AdvancePage ==
    /\ Ready("advance_page")
    /\ LET after == AdvancePageStep(current_page_index, current_phase, exam_images)
       IN /\ current_page_index' = after.current_page_index
          /\ current_phase' = after.current_phase
    /\ node' = AfterAdvancePage(current_phase')
    /\ UNCHANGED <<issued, config, error, pages_text, pages_text_concatenated,
                   pages_questions_map, pages_questions_text_map,
                   pages_clinical_cases_map, exam_questions, gLlmCalls,
                   sleep_remaining, locals, history>>
    /\ Engine

\* _concatenate_pages_text_step
ConcatenatePagesText ==
    /\ Ready("concatenate_pages_text")
    /\ current_page_index' = 0
    /\ pages_text_concatenated' = JoinAll(pages_text)
    /\ current_phase' = "extract_each_page_questions"
    /\ node' = Successor("concatenate_pages_text")
    /\ UNCHANGED <<issued, config, error, pages_text, pages_questions_map,
                   pages_questions_text_map, pages_clinical_cases_map,
                   exam_questions, gLlmCalls, sleep_remaining, locals, history>>
    /\ Engine

(***************************************************************************)
(* Content pass.                                                           *)
(***************************************************************************)
\* Mutant: a middle page is windowed with the page before it.
Window_Previous(texts, index) ==
    IF index = 0
    THEN (IF Len(texts) > 1 THEN JoinNL(texts[1], texts[2]) ELSE texts[1])
    ELSE JoinNL(texts[index], texts[index + 1])

\* concatenated_pages_text of _extract_questions_using_numbers_step
Window(texts, index) ==
    IF index = 0
    THEN (IF Len(texts) > 1 THEN JoinNL(texts[1], texts[2]) ELSE texts[1])
    ELSE IF index = Len(texts) - 1
         THEN JoinNL(texts[index], texts[index + 1])
         ELSE JoinNL(texts[index + 1], texts[index + 2])

\* Mutant: the bucket of the page replaces the buckets of the other pages.
StoreQuestionsText_Alone(map, index, questions) == PageKey(index) :> questions

\* state.pages_questions_text_map[f"{current_page_index}"] = response.questions
StoreQuestionsText(map, index, questions) == (PageKey(index) :> questions) @@ map

\* _extract_questions_using_numbers_step
ExtractQuestionsUsingNumbers ==
    /\ Ready("extract_questions_using_numbers")
    /\ issued' = Issue("extract_questions_using_numbers")
    /\ concatenated_pages_text' = Window(pages_text, current_page_index)
    /\ \E r \in QuestionsTextChoices :
         pages_questions_text_map' =
             StoreQuestionsText(pages_questions_text_map, current_page_index, r)
    /\ node' = Successor("extract_questions_using_numbers")
    /\ UNCHANGED <<config, error, current_phase, current_page_index, pages_text,
                   pages_text_concatenated, pages_questions_map,
                   pages_clinical_cases_map, exam_questions, gLlmCalls,
                   sleep_remaining, retryCount, hasFailed, missingQuestions,
                   response, loop_pc, total_prev_questions, history>>
    /\ Engine

\* current_page_map.question_numbers
Expected == pages_questions_map[PageKey(current_page_index)].question_numbers

\* _extract_each_page_questions_step, lines 469-482
EnterEachPageQuestions ==
    /\ node = "extract_each_page_questions"
    /\ loop_pc = "idle"
    /\ sleep_remaining = 0
    /\ IF pages_questions_map[PageKey(current_page_index)].is_class
       THEN Raise("AttributeError")
       ELSE /\ hasFailed' = FALSE
            /\ missingQuestions' = <<>>
            /\ retryCount' = RetryBudget
            /\ response' = NoResponse
            /\ loop_pc' = "loop"
            /\ attempts' = <<>>
            /\ returned' = <<>>
            /\ review' = NoReview
            /\ UNCHANGED <<issued, config, node, error, context, gLlmCalls, sleep_remaining,
                           concatenated_pages_text, total_prev_questions,
                           provenance, merges, stripped, reviewed>>
    /\ Engine

\* Mutant: a matching count does not leave the loop.
AttemptOutcome_NoBreak(r) ==
    /\ missingQuestions' = NotIn(Expected, Numbers(r))
    /\ hasFailed' = (Len(Numbers(r)) # Len(Expected))
    /\ retryCount' = retryCount - 1
    /\ loop_pc' = IF retryCount - 1 > 0 THEN "loop" ELSE "after"

\* Mutant: a failed attempt keeps the response of the attempt before it.
KeptResponse_First(old, new) == IF old = NoResponse THEN new ELSE old

\* response = await structured_llm.ainvoke(messages): the name is rebound to
\* the latest response.
KeptResponse(old, new) == new

\* Mutant: an attempt is accepted only if it returned the expected numbers.
AttemptOutcome_ExactNumbers(r) ==
    IF Numbers(r) = Expected
    THEN /\ hasFailed' = FALSE
         /\ missingQuestions' = <<>>
         /\ loop_pc' = "after"
         /\ UNCHANGED retryCount
    ELSE /\ missingQuestions' = NotIn(Expected, Numbers(r))
         /\ hasFailed' = TRUE
         /\ retryCount' = retryCount - 1
         /\ loop_pc' = IF retryCount - 1 > 0 THEN "loop" ELSE "after"

\* The loop body after handle_quota (lines 514-523) for the response r.
AttemptOutcome(r) ==
    IF Len(Numbers(r)) = Len(Expected)
    THEN /\ hasFailed' = FALSE
         /\ missingQuestions' = <<>>
         /\ loop_pc' = "after"
         /\ UNCHANGED retryCount
    ELSE /\ missingQuestions' = NotIn(Expected, Numbers(r))
         /\ hasFailed' = TRUE
         /\ retryCount' = retryCount - 1
         /\ loop_pc' = IF retryCount - 1 > 0 THEN "loop" ELSE "after"

\* Mutant: the prompt carries the missing numbers whether or not an attempt
\* has failed.
Review_Unconditional(failed, missing) == [failed |-> TRUE, missing |-> missing]

\* "review" of the parse prompt: the missing questions if hasFailed else "".
Review(failed, missing) ==
    IF failed THEN [failed |-> TRUE, missing |-> missing] ELSE NoReview

\* One pass of the while loop: the parse call and handle_quota (lines
\* 483-512); when handle_quota does not sleep, also the rest of the body.
Attempt ==
    /\ node = "extract_each_page_questions"
    /\ loop_pc = "loop"
    /\ sleep_remaining = 0
    /\ retryCount > 0
    /\ issued' = Issue("extract_each_page_questions")
    /\ \E r \in AttemptChoices(Expected) :
         LET q == HandleQuota(gLlmCalls, max_quota) IN
         /\ response' = KeptResponse(response, r)
         /\ attempts' = Append(attempts, Len(r) = Len(Expected))
         /\ returned' = Append(returned, Numbers(r))
         /\ gLlmCalls' = q.gLlmCalls
         /\ sleep_remaining' = q.sleep
         /\ IF q.sleep > 0
            THEN UNCHANGED <<hasFailed, missingQuestions, retryCount, loop_pc>>
            ELSE AttemptOutcome(r)
    /\ review' = Review(hasFailed, missingQuestions)
    /\ UNCHANGED <<config, node, error, context, concatenated_pages_text,
                   total_prev_questions, provenance, merges, stripped, reviewed>>
    /\ Engine

\* Mutant: the cross-page gap is never added.
QuestionsCountDifference_NoGap(expected, actual, index, images, map) ==
    IF Len(expected) >= actual THEN Len(expected) - actual ELSE actual - Len(expected)

\* Mutant: every positive cross-page difference is added in full.
QuestionsCountDifference_WholeGap(expected, actual, index, images, map) ==
    LET count == IF Len(expected) >= actual
                 THEN Len(expected) - actual ELSE actual - Len(expected)
        next_known == /\ expected # <<>>
                      /\ index + 1 < images
                      /\ PageKey(index + 1) \in DOMAIN map
                      /\ ~map[PageKey(index + 1)].is_class
                      /\ map[PageKey(index + 1)].question_numbers # <<>>
        diff == map[PageKey(index + 1)].question_numbers[1] - expected[Len(expected)]
    IN IF next_known /\ diff > 0 /\ diff < GapLimit
       THEN count + diff ELSE count

\* Mutant: the gap adjustment replaces the count mismatch.
QuestionsCountDifference_GapReplaces(expected, actual, index, images, map) ==
    LET count == IF Len(expected) >= actual
                 THEN Len(expected) - actual ELSE actual - Len(expected)
        next_known == /\ expected # <<>>
                      /\ index + 1 < images
                      /\ PageKey(index + 1) \in DOMAIN map
                      /\ ~map[PageKey(index + 1)].is_class
                      /\ map[PageKey(index + 1)].question_numbers # <<>>
        diff == map[PageKey(index + 1)].question_numbers[1] - expected[Len(expected)]
    IN IF next_known /\ diff > 1 /\ diff < GapLimit
       THEN diff - 1 ELSE count

\* questions_count_difference, lines 534-550
QuestionsCountDifference(expected, actual, index, images, map) ==
    LET count == IF Len(expected) >= actual
                 THEN Len(expected) - actual ELSE actual - Len(expected)
        next_known == /\ expected # <<>>
                      /\ index + 1 < images
                      /\ PageKey(index + 1) \in DOMAIN map
                      /\ ~map[PageKey(index + 1)].is_class
                      /\ map[PageKey(index + 1)].question_numbers # <<>>
        diff == map[PageKey(index + 1)].question_numbers[1] - expected[Len(expected)]
    IN IF next_known /\ diff > 1 /\ diff < GapLimit
       THEN count + (diff - 1) ELSE count

\* Mutant: a placeholder with one option per expected letter A-D.
FillingQuestion_FourOptions ==
    Question("Filling Question",
             [k \in 1..(FillingOptionsCount - 1) |-> [option |-> "Filling Option"]], 0)

\* Question(question="Filling Question", options=filling_options, number=0)
FillingQuestion ==
    Question("Filling Question",
             [k \in 1..FillingOptionsCount |-> [option |-> "Filling Option"]], 0)

\* Mutant: placeholders are synthesised up to and including the limit.
FillingQuestions_AtLimit(difference) ==
    IF 0 < difference /\ difference <= FillLimit
    THEN [k \in 1..difference |-> FillingQuestion]
    ELSE <<>>

\* Mutant: one placeholder too many.
FillingQuestions_OneMore(difference) ==
    IF 0 < difference /\ difference < FillLimit
    THEN [k \in 1..(difference + 1) |-> FillingQuestion]
    ELSE <<>>

\* filling_questions, lines 554-561 (missing_sequential_questions is always empty)
FillingQuestions(difference) ==
    IF 0 < difference /\ difference < FillLimit
    THEN [k \in 1..difference |-> FillingQuestion]
    ELSE <<>>

\* Mutant: the placeholders are left out of the merged list.
Merge_DropFilling(old, new, filling) == old \o new

\* Mutant: the merge replaces the list by the page's entries.
Merge_Replace(old, new, filling) == new \o filling

\* Mutant: the placeholders are merged before the parsed questions.
Merge_FillingFirst(old, new, filling) == old \o filling \o new

\* state.exam_questions + new_questions + filling_questions
Merge(old, new, filling) == old \o new \o filling

\* _extract_each_page_questions_step after the loop (lines 526-576) and
\* the conditional edge that follows it.
MergeQuestions ==
    /\ node = "extract_each_page_questions"
    /\ loop_pc = "after"
    /\ sleep_remaining = 0
    /\ LET difference == QuestionsCountDifference(Expected, Len(response),
                             current_page_index, exam_images, pages_questions_map)
           filling == FillingQuestions(difference)
           page == [k \in 1..Len(response) |-> current_page_index]
           fpage == [k \in 1..Len(filling) |-> current_page_index]
       IN /\ exam_questions' = Merge(exam_questions, response, filling)
          /\ provenance' = Merge(provenance, page, fpage)
          /\ merges' = Append(merges,
                                [page |-> current_page_index, expected |-> Expected,
                                 final |-> Numbers(response), fill |-> Len(filling),
                                 before |-> Len(exam_questions)])
    /\ attempts' = <<>>
    /\ returned' = <<>>
    /\ review' = NoReview
    /\ response' = NoResponse
    /\ retryCount' = RetryBudget
    /\ hasFailed' = FALSE
    /\ missingQuestions' = <<>>
    /\ loop_pc' = "idle"
    /\ node' = AfterEachPageQuestions(current_page_index, exam_images)
    /\ UNCHANGED <<issued, config, error, current_phase, current_page_index, pages_text,
                   pages_text_concatenated, pages_questions_map,
                   pages_questions_text_map, pages_clinical_cases_map, gLlmCalls,
                   sleep_remaining, concatenated_pages_text, total_prev_questions,
                   stripped, reviewed>>
    /\ Engine

(***************************************************************************)
(* The document-level workflow of src/src/gemini_workflow.py.              *)
(***************************************************************************)
\* graph.add_edge(source, target) of GeminiWorkflow._build_workflow
doc_edges ==
    [start |-> "extract_document_text",
     extract_document_text |-> "review_document_text",
     review_document_text |-> "questions_markdown_formatter",
     questions_markdown_formatter |-> "extract_document_pages_data",
     extract_document_pages_data |-> "extract_document_clinical_case",
     extract_document_clinical_case |-> "finish",
     finish |-> "END"]

\* Responses of the collaborator to the calls of the document-level workflow.
DocumentTextChoices == {<<"text">>}
PagesDataChoices == {<<"pages">>}
PageQuestionsChoices == {RealQuestions(<<>>), RealQuestions(<<1, 2>>)}
DocumentClinicalCase(text, start, end) ==
    [clinical_case |-> text, start_question_number |-> start,
     end_question_number |-> end]
DocumentClinicalCaseChoices ==
    { <<>>,
      <<DocumentClinicalCase("case", 1, 2)>>,
      <<DocumentClinicalCase("case", 3, 2)>>,
      <<DocumentClinicalCase("one", 2, 2), DocumentClinicalCase("two", 3, 5)>> }

\* Mutant: the range includes its stop.
Range_StopIncluded(start, stop) ==
    IF stop >= start THEN [k \in 1..(stop - start + 1) |-> start + k - 1] ELSE <<>>

\* list(range(start, stop))
Range(start, stop) ==
    IF stop > start THEN [k \in 1..(stop - start) |-> start + k - 1] ELSE <<>>

\* clinical_cases_list of _extract_document_clinical_case_step
ClinicalCasesList(data) ==
    [k \in 1..Len(data) |->
        [question_numbers |-> Range(data[k].start_question_number,
                                    data[k].end_question_number + 1),
         clinical_case |-> data[k].clinical_case,
         type |-> "clinicalCase",
         images |-> <<>>]]

doc_frame == <<workflow, exam_images, max_quota, error, context,
               concatenated_pages_text, retryCount, hasFailed, missingQuestions,
               loop_pc, total_prev_questions, history>>

\* The nodes "start" and "finish": lambda state: state
DocumentPassThrough ==
    /\ workflow = "GeminiWorkflow"
    /\ node \in {"start", "finish"}
    /\ node' = doc_edges[node]
    /\ UNCHANGED <<doc_frame, document, issued, gLlmCalls, sleep_remaining, response>>
    /\ Engine

\* _extract_document_text_step and _review_document_text_step
ExtractDocumentText ==
    /\ workflow = "GeminiWorkflow"
    /\ node \in {"extract_document_text", "review_document_text"}
    /\ sleep_remaining = 0
    /\ \E r \in DocumentTextChoices :
         LET q == HandleQuota(gLlmCalls, max_quota) IN
         /\ issued' = Issue(node)
         /\ gLlmCalls' = q.gLlmCalls
         /\ sleep_remaining' = q.sleep
         /\ IF q.sleep > 0
            THEN /\ response' = r
                 /\ UNCHANGED <<node, document>>
            ELSE /\ response' = NoResponse
                 /\ document' = [document EXCEPT !.questions_raw_text = r]
                 /\ node' = doc_edges[node]
    /\ UNCHANGED doc_frame
    /\ Engine

\* _questions_markdown_formatter_step, lines 191-215: the free-text call,
\* handle_quota and, when handle_quota does not sleep, the markdown text.
QuestionsMarkdownFormatter ==
    /\ workflow = "GeminiWorkflow"
    /\ Ready("questions_markdown_formatter")
    /\ loop_pc = "idle"
    /\ \E r \in DocumentTextChoices :
         LET q == HandleQuota(gLlmCalls, max_quota) IN
         /\ issued' = Issue("questions_markdown_formatter")
         /\ gLlmCalls' = q.gLlmCalls
         /\ sleep_remaining' = q.sleep
         /\ IF q.sleep > 0
            THEN /\ response' = r
                 /\ UNCHANGED <<document, loop_pc>>
            ELSE /\ response' = NoResponse
                 /\ document' = [document EXCEPT !.questions_markdown_text = r]
                 /\ loop_pc' = "parse"
    /\ UNCHANGED <<workflow, exam_images, max_quota, node, error, context,
                   concatenated_pages_text, retryCount, hasFailed, missingQuestions,
                   total_prev_questions, history>>
    /\ Engine

\* _questions_markdown_formatter_step, lines 217-239: the structured parse
\* of the markdown text, which no handle_quota follows.
QuestionsMarkdownParse ==
    /\ workflow = "GeminiWorkflow"
    /\ Ready("questions_markdown_formatter")
    /\ loop_pc = "parse"
    /\ \E parsed \in PageQuestionsChoices :
         document' = [document EXCEPT !.questions = parsed]
    /\ issued' = Issue("questions_markdown_formatter.parse")
    /\ loop_pc' = "idle"
    /\ node' = doc_edges[node]
    /\ UNCHANGED <<workflow, exam_images, max_quota, error, context, gLlmCalls,
                   sleep_remaining, response, concatenated_pages_text, retryCount,
                   hasFailed, missingQuestions, total_prev_questions, history>>
    /\ Engine

\* _extract_document_pages_data_step
ExtractDocumentPagesData ==
    /\ workflow = "GeminiWorkflow"
    /\ Ready("extract_document_pages_data")
    /\ \E r \in PagesDataChoices :
         LET q == HandleQuota(gLlmCalls, max_quota) IN
         /\ issued' = Issue("extract_document_pages_data")
         /\ gLlmCalls' = q.gLlmCalls
         /\ sleep_remaining' = q.sleep
         /\ IF q.sleep > 0
            THEN /\ response' = r
                 /\ UNCHANGED <<node, document>>
            ELSE /\ response' = NoResponse
                 /\ document' = [document EXCEPT !.pages_data = r]
                 /\ node' = doc_edges[node]
    /\ UNCHANGED doc_frame
    /\ Engine

\* _extract_document_clinical_case_step
ExtractDocumentClinicalCase ==
    /\ workflow = "GeminiWorkflow"
    /\ Ready("extract_document_clinical_case")
    /\ \E r \in DocumentClinicalCaseChoices :
         LET q == HandleQuota(gLlmCalls, max_quota) IN
         /\ issued' = Issue("extract_document_clinical_case")
         /\ document' = [document EXCEPT !.pages_clinical_cases = ClinicalCasesList(r)]
         /\ gLlmCalls' = q.gLlmCalls
         /\ sleep_remaining' = q.sleep
         /\ node' = IF q.sleep > 0 THEN node ELSE doc_edges[node]
    /\ UNCHANGED <<doc_frame, response>>
    /\ Engine

(***************************************************************************)
(* The end of the asyncio.sleep of handle_quota: the suspended step goes   *)
(* on from the line after `await self.handle_quota()`.                     *)
(***************************************************************************)
Wake ==
    /\ sleep_remaining > 0
    /\ sleep_remaining' = 0
    /\ CASE node = "extract_page_text" ->
              /\ pages_text' = Append(pages_text, response)
              /\ response' = NoResponse
              /\ node' = Successor("extract_page_text")
              /\ UNCHANGED <<retryCount, hasFailed, missingQuestions, loop_pc,
                             document, issued>>
         [] node = "extract_clinical_cases" ->
              /\ node' = AfterClinicalCases(current_page_index, exam_images,
                                            pages_clinical_cases_map)
              /\ UNCHANGED <<pages_text, response, retryCount, hasFailed,
                             missingQuestions, loop_pc, document, issued>>
         [] node = "extract_each_page_questions" ->
              /\ AttemptOutcome(response)
              /\ UNCHANGED <<node, pages_text, response, document, issued>>
         [] node \in {"extract_document_text", "review_document_text"} ->
              /\ document' = [document EXCEPT !.questions_raw_text = response]
              /\ response' = NoResponse
              /\ node' = doc_edges[node]
              /\ UNCHANGED <<pages_text, retryCount, hasFailed, missingQuestions,
                             loop_pc, issued>>
         [] node = "questions_markdown_formatter" ->
              /\ document' = [document EXCEPT !.questions_markdown_text = response]
              /\ response' = NoResponse
              /\ loop_pc' = "parse"
              /\ UNCHANGED <<node, pages_text, retryCount, hasFailed,
                             missingQuestions, issued>>
         [] node = "extract_document_pages_data" ->
              /\ document' = [document EXCEPT !.pages_data = response]
              /\ response' = NoResponse
              /\ node' = doc_edges[node]
              /\ UNCHANGED <<pages_text, retryCount, hasFailed, missingQuestions,
                             loop_pc, issued>>
         [] node = "extract_document_clinical_case" ->
              /\ node' = doc_edges[node]
              /\ UNCHANGED <<pages_text, response, retryCount, hasFailed,
                             missingQuestions, loop_pc, document, issued>>
    /\ UNCHANGED <<workflow, exam_images, max_quota, error, current_phase,
                   current_page_index, pages_text_concatenated, pages_questions_map,
                   pages_questions_text_map, pages_clinical_cases_map,
                   exam_questions, gLlmCalls, concatenated_pages_text,
                   total_prev_questions, history>>
    /\ Engine

\* ExtractionState declares pages_questions_map: Dict[str, PageQuestionsNumbers]:
\* once the class object is stored, validating the state between two nodes
\* may reject it before any step reads it.
ValidateState ==
    /\ workflow = "Workflow"
    /\ node \in nodes
    /\ sleep_remaining = 0
    /\ loop_pc = "idle"
    /\ ReadsClass(pages_questions_map, exam_images)
    /\ Raise("ValidationError")
    /\ Engine

(***************************************************************************)
(* Failure of the collaborator, the step ceiling of the engine, and the    *)
(* caller of run().                                                        *)
(***************************************************************************)
\* The call site the suspended or ready step is about to call, "" when the
\* step is not at a call.
NextCallSite ==
    IF sleep_remaining > 0 THEN ""
    ELSE IF workflow = "Workflow"
    THEN (IF node = "extract_each_page_questions"
          THEN (IF loop_pc = "loop" /\ retryCount > 0 THEN node ELSE "")
          ELSE IF node = "extract_page_text"
          THEN (IF /\ response = NoResponse
                   /\ HasPage(current_page_index, exam_images)
                   /\ ~ReadsClass(pages_questions_map, current_page_index)
                THEN node ELSE "")
          ELSE IF node \in {"extract_questions_numbers", "review_questions_numbers",
                            "extract_clinical_cases",
                            "remove_clinical_cases_from_page_text",
                            "extract_questions_using_numbers"}
          THEN node ELSE "")
    ELSE (IF node = "questions_markdown_formatter" /\ loop_pc = "parse"
          THEN "questions_markdown_formatter.parse"
          ELSE IF node \in {"extract_document_text", "review_document_text",
                            "questions_markdown_formatter",
                            "extract_document_pages_data",
                            "extract_document_clinical_case"}
          THEN node ELSE "")

\* The awaited inference call raises (collaborator unreachable, or a response
\* that does not conform to the schema): no step catches it, and the
\* exception leaves workflow.ainvoke before handle_quota is reached.
CallFails ==
    /\ NextCallSite # ""
    /\ node' = "FAILED"
    /\ error' = "InferenceError"
    /\ UNCHANGED <<issued, config, context, gLlmCalls, sleep_remaining, locals, history>>
    /\ Engine

\* "recursion_limit": 120 -- the engine raises instead of running a node
\* once it has run recursion_limit nodes without reaching END.
OutOfSteps ==
    /\ node \notin {"END", "FAILED"}
    /\ steps = recursion_limit
    /\ Raise("GraphRecursionError")
    /\ UNCHANGED <<steps, result, runs>>

\* questions_response of extract_questions_from_pdf
QuestionsResponse(questions) ==
    [k \in 1..Len(questions) |->
        [questionString |-> questions[k].question,
         explanation |-> "",
         tag |-> "",
         options |-> [o \in 1..Len(questions[k].options) |->
                         [option |-> questions[k].options[o].option,
                          isCorrect |-> FALSE,
                          justification |-> ""]]]]

RECURSIVE ClinicalCasesResponse(_, _, _)
\* clinical_cases_response of extract_questions_from_pdf, for the first n pages
ClinicalCasesResponse(cases_map, numbers_map, n) ==
    IF n = 0 THEN <<>>
    ELSE LET key == PageKey(n - 1)
             nums == numbers_map[key].question_numbers
             first == IF Len(nums) > 0 THEN nums[1] ELSE 0
         IN ClinicalCasesResponse(cases_map, numbers_map, n - 1)
            \o (IF key \in DOMAIN cases_map
                THEN [k \in 1..Len(cases_map[key]) |->
                         [question_numbers |-> <<first>>,
                          clinical_case |-> cases_map[key][k],
                          type |-> "clinicalCase"]]
                ELSE <<>>)

\* final_page_numbers of extract_questions_from_pdf
FinalPageNumbers(numbers_map, n) ==
    [i \in 1..n |->
        [k \in 1..Len(numbers_map[PageKey(i - 1)].question_numbers) |->
            numbers_map[PageKey(i - 1)].question_numbers[k] - 1]]

\* The ExtractionResponse returned by extract_questions_from_pdf.
ExtractionResponse(questions, cases_map, numbers_map, n) ==
    [kind |-> "response",
     success |-> TRUE,
     total_questions |-> Len(QuestionsResponse(questions)),
     questions |-> QuestionsResponse(questions),
     clinical_cases |-> ClinicalCasesResponse(cases_map, numbers_map, n),
     pages_questions_map |-> numbers_map,
     page_numbers |-> FinalPageNumbers(numbers_map, n)]

\* The ExtractionResponse of the document-level endpoint: its questions (no
\* modelled option carries a letter prefix for the endpoint to cut) and its
\* clinical cases.
DocumentResponse(doc) ==
    [kind |-> "response",
     success |-> TRUE,
     total_questions |-> Len(QuestionsResponse(doc.questions)),
     questions |-> QuestionsResponse(doc.questions),
     clinical_cases |-> [k \in 1..Len(doc.pages_clinical_cases) |->
                            [question_numbers |-> doc.pages_clinical_cases[k].question_numbers,
                             clinical_case |-> doc.pages_clinical_cases[k].clinical_case,
                             type |-> "clinicalCase"]]]

\* Mutant: the failure signal does not carry the cause.
HTTPException_NoCause(e) ==
    [kind |-> "exception", status_code |-> 500,
     detail |-> <<"Error processing PDF: ", "">>]

\* HTTPException(status_code=500, detail=f"Error processing PDF: {str(e)}")
HTTPException(e) ==
    [kind |-> "exception", status_code |-> 500,
     detail |-> <<"Error processing PDF: ", e>>]

\* The caller of run(): the endpoint converts the final state into its
\* response, or turns the exception that left run() into the error response.
Respond ==
    /\ node \in {"END", "FAILED"}
    /\ result = NoResult
    /\ result' = IF node = "FAILED" THEN HTTPException(error)
                 ELSE IF workflow = "Workflow"
                 THEN ExtractionResponse(exam_questions, pages_clinical_cases_map,
                                         pages_questions_map, exam_images)
                 ELSE DocumentResponse(document)
    /\ UNCHANGED <<issued, config, node, error, context, gLlmCalls, sleep_remaining,
                   locals, history, steps, runs>>

\* initial_state = ExtractionState(): a run starts from the default context.
FreshState ==
    /\ document' = NoDocument
    /\ node' = "start"
    /\ error' = ""
    /\ current_phase' = "extract_page_text"
    /\ current_page_index' = 0
    /\ pages_text' = <<>>
    /\ pages_text_concatenated' = <<>>
    /\ pages_questions_map' = <<>>
    /\ pages_questions_text_map' = <<>>
    /\ pages_clinical_cases_map' = <<>>
    /\ exam_questions' = <<>>
    /\ concatenated_pages_text' = <<>>
    /\ retryCount' = RetryBudget
    /\ hasFailed' = FALSE
    /\ missingQuestions' = <<>>
    /\ response' = NoResponse
    /\ loop_pc' = "idle"
    /\ total_prev_questions' = 1
    /\ provenance' = <<>>
    /\ merges' = <<>>
    /\ attempts' = <<>>
    /\ stripped' = <<>>
    /\ reviewed' = {}
    /\ returned' = <<>>
    /\ review' = NoReview
    /\ steps' = 0
    /\ result' = NoResult

\* Mutant: run() starts the call counter again.
Run_ResetCounter ==
    /\ node \in {"END", "FAILED"}
    /\ result # NoResult
    /\ runs < MaxRuns
    /\ runs' = runs + 1
    /\ exam_images' \in 1..MaxPages
    /\ FreshState
    /\ gLlmCalls' = 0
    /\ UNCHANGED <<workflow, max_quota, sleep_remaining, issued>>

\* run() is called again on the instance, for another document.
Run ==
    /\ node \in {"END", "FAILED"}
    /\ result # NoResult
    /\ runs < MaxRuns
    /\ runs' = runs + 1
    /\ exam_images' \in 1..MaxPages
    /\ FreshState
    /\ UNCHANGED <<workflow, max_quota, gLlmCalls, sleep_remaining, issued>>

Next ==
    \/ Start
    \/ ExtractPageText
    \/ ExtractQuestionsNumbers
    \/ ReviewQuestionsNumbers
    \/ ExtractClinicalCases
    \/ RemoveClinicalCases
    \/ AdvancePage
    \/ ConcatenatePagesText
    \/ ExtractQuestionsUsingNumbers
    \/ EnterEachPageQuestions
    \/ Attempt
    \/ MergeQuestions
    \/ Wake
    \/ ValidateState
    \/ DocumentPassThrough
    \/ ExtractDocumentText
    \/ QuestionsMarkdownFormatter
    \/ QuestionsMarkdownParse
    \/ ExtractDocumentPagesData
    \/ ExtractDocumentClinicalCase
    \/ CallFails
    \/ OutOfSteps
    \/ Respond
    \/ Run

Spec == Init /\ [][Next]_vars

(***************************************************************************)
(* Properties.                                                             *)
(***************************************************************************)
IsFilling(q) == q = FillingQuestion

\* The number list stored for page i, empty when none or no list is stored.
StoredNumbers(i) ==
    IF PageKey(i) \in DOMAIN pages_questions_map
       /\ ~pages_questions_map[PageKey(i)].is_class
    THEN pages_questions_map[PageKey(i)].question_numbers
    ELSE <<>>

Abs(x) == IF x >= 0 THEN x ELSE -x

\* gap = first number of page i+1 minus last number of page i, for a merge m
\* of page i whose expected list and whose next page's list are non-empty.
HasNext(m) ==
    /\ m.expected # <<>>
    /\ m.page + 1 < exam_images
    /\ StoredNumbers(m.page + 1) # <<>>
Gap(m) == StoredNumbers(m.page + 1)[1] - m.expected[Len(m.expected)]
GapApplies(m) == HasNext(m) /\ 1 < Gap(m) /\ Gap(m) < 8

\* countDiff as section 4.4 steps 3 and 4 define it.
CountDiff(m) ==
    Abs(Len(m.expected) - Len(m.final)) + (IF GapApplies(m) THEN Gap(m) - 1 ELSE 0)

\* C1: in every reachable state the entries of `questions` are grouped by
\* page of origin in non-decreasing page order, and within one page every
\* parsed question precedes every placeholder of that page.
C1_Ordering ==
    /\ Len(provenance) = Len(exam_questions)
    /\ \A j, k \in 1..Len(exam_questions) :
         j < k =>
           /\ provenance[j] <= provenance[k]
           /\ (provenance[j] = provenance[k] /\ IsFilling(exam_questions[j]))
                 => IsFilling(exam_questions[k])

\* C1 witness: a page contributed a parsed question followed by a
\* placeholder, and a later page contributed entries after them.
C1_Witness ==
    \E j, k, l \in 1..Len(exam_questions) :
        /\ j < k /\ k < l
        /\ provenance[j] = provenance[k]
        /\ ~IsFilling(exam_questions[j])
        /\ IsFilling(exam_questions[k])
        /\ provenance[l] > provenance[k]

\* The entries a merge m appended: Len(m.final) parsed questions carrying
\* the numbers of the final attempt, then n placeholders, and nothing else
\* until the next merge.
AppendedBy(m, n, last) ==
    /\ \A k \in 1..Len(m.final) :
          /\ ~IsFilling(exam_questions[m.before + k])
          /\ exam_questions[m.before + k].number = m.final[k]
    /\ \A k \in 1..n : IsFilling(exam_questions[m.before + Len(m.final) + k])
    /\ last => Len(exam_questions) = m.before + Len(m.final) + n

\* C2: at the reconciliation of page i, countDiff = |expected - actual of the
\* final attempt|, plus (gap - 1) when both lists are non-empty and
\* 1 < gap < 8; when 0 < countDiff < 8 exactly countDiff placeholders are
\* appended after the parsed questions of page i.
C2_Reconciliation ==
    \A x \in 1..Len(merges) :
        LET m == merges[x] IN
        /\ m.expected = StoredNumbers(m.page)
        /\ (0 < CountDiff(m) /\ CountDiff(m) < 8)
              => /\ m.fill = CountDiff(m)
                 /\ AppendedBy(m, CountDiff(m), x = Len(merges))

\* C2 witness: the page expects [5,6,7], its final attempt returned [5,6],
\* the next page starts at 9, and 2 placeholders follow the 2 parsed questions.
C2_Witness ==
    \E x \in 1..Len(merges) :
        LET m == merges[x] IN
        /\ m.expected = <<5, 6, 7>>
        /\ m.final = <<5, 6>>
        /\ HasNext(m)
        /\ StoredNumbers(m.page + 1)[1] = 9
        /\ m.fill = 2
        /\ Len(exam_questions) >= m.before + 4

RECURSIVE ParsedOf(_)
\* The parsed questions of the merges ms, concatenated in order.
ParsedOf(ms) ==
    IF ms = <<>> THEN <<>>
    ELSE [k \in 1..Len(ms[1].final) |-> ms[1].final[k]] \o ParsedOf(Tail(ms))

\* C3: in the page-level workflow, if on every page the final attempt
\* returned as many questions as the page expects and no cross-page gap lies
\* strictly between 1 and 8, then at END `questions` is the parsed questions in page order, without placeholder.
C3_PerfectExtraction ==
    (/\ workflow = "Workflow"
     /\ node = "END"
     /\ \A x \in 1..Len(merges) :
          /\ Len(merges[x].final) = Len(merges[x].expected)
          /\ ~GapApplies(merges[x]))
    => /\ Len(merges) = exam_images
       /\ \A x \in 1..Len(merges) : merges[x].page = x - 1
       /\ Numbers(exam_questions) = ParsedOf(merges)
       /\ \A k \in 1..Len(exam_questions) : ~IsFilling(exam_questions[k])

\* C3 witness: 2 pages expecting [1,2,3] and [4,5], no clinical case, END
\* reached with 5 entries numbered 1..5.
C3_Witness ==
    /\ workflow = "Workflow"
    /\ node = "END"
    /\ exam_images = 2
    /\ StoredNumbers(0) = <<1, 2, 3>>
    /\ StoredNumbers(1) = <<4, 5>>
    /\ pages_clinical_cases_map["0"] = <<>>
    /\ pages_clinical_cases_map["1"] = <<>>
    /\ Numbers(exam_questions) = <<1, 2, 3, 4, 5>>
    /\ \A k \in 1..Len(exam_questions) : ~IsFilling(exam_questions[k])

\* C4 (as claimed): every stored number list is a list of at most 8
\* integers; a collaborator output of more than 8 numbers is stored as the
\* empty list, after detection and after review alike.
C4_NumbersBounded ==
    \A key \in DOMAIN pages_questions_map :
        /\ ~pages_questions_map[key].is_class
        /\ Len(pages_questions_map[key].question_numbers) <= 8

\* The window section 4.3 defines for page i of n pages with texts t.
WindowRule(t, i, n) ==
    IF n = 1 THEN t[1]
    ELSE IF i = 0 THEN t[1] \o <<"\n">> \o t[2]
    ELSE IF i = n - 1 THEN t[n - 1] \o <<"\n">> \o t[n]
    ELSE t[i + 1] \o <<"\n">> \o t[i + 2]

\* C5: the window built by the windowed extraction for page i of an N-page
\* run is page0 when N = 1, page0 + page1 for i = 0, page[N-2] + page[N-1]
\* for i = N-1, and page[i] + page[i+1] for a middle page, in that order.
C5_Window ==
    (workflow = "Workflow" /\ node = "extract_each_page_questions")
    => /\ Len(pages_text) = exam_images
       /\ concatenated_pages_text = WindowRule(pages_text, current_page_index, exam_images)

\* C5 witness: the window of the middle page of a 3-page run was built from
\* pages 1 and 2, page 1 stripped of its clinical case.
C5_Witness ==
    /\ node = "extract_each_page_questions"
    /\ exam_images = 3
    /\ current_page_index = 1
    /\ concatenated_pages_text = <<"s1", "\n", "p2">>

\* C6: every placeholder appended by a reconciliation has number 0, text
\* "Filling Question" and exactly 5 options, each reading "Filling Option".
C6_Placeholder ==
    \A x \in 1..Len(merges) : \A k \in 1..merges[x].fill :
        LET q == exam_questions[merges[x].before + Len(merges[x].final) + k] IN
        /\ q.number = 0
        /\ q.question = "Filling Question"
        /\ Len(q.options) = 5
        /\ \A o \in 1..Len(q.options) : q.options[o].option = "Filling Option"

\* C6 witness: a reconciliation appended three placeholders.
C6_Witness ==
    \E x \in 1..Len(merges) :
        /\ merges[x].fill = 3
        /\ Len(exam_questions) >= merges[x].before + Len(merges[x].final) + 3

\* C7 (as claimed): a page whose final attempt returned at least as many
\* questions as expected, and to which no cross-page gap applies, gets no
\* placeholder.
C7_NoFillingUnlessShort ==
    \A x \in 1..Len(merges) :
        (Len(merges[x].final) >= Len(merges[x].expected) /\ ~GapApplies(merges[x]))
            => merges[x].fill = 0

\* C8 (as claimed): for a page without gap adjustment whose final attempt
\* differs from the expected count by less than 8, the entries appended for
\* the page are as many as the page expects.
C8_AlignedWhenCountsDiffer ==
    \A x \in 1..Len(merges) :
        LET m == merges[x] IN
        (~GapApplies(m) /\ Abs(Len(m.expected) - Len(m.final)) < 8)
            => Len(m.final) + m.fill = Len(m.expected)

\* C8 (amended): for a page without gap adjustment whose final attempt
\* returned no more questions than expected, and fewer by less than 8, the
\* entries appended for the page are as many as the page expects.
C8_AlignedWhenShort ==
    \A x \in 1..Len(merges) :
        LET m == merges[x] IN
        (/\ ~GapApplies(m)
         /\ Len(m.final) <= Len(m.expected)
         /\ Len(m.expected) - Len(m.final) < 8)
            => /\ Len(m.final) + m.fill = Len(m.expected)
               /\ AppendedBy(m, Len(m.expected) - Len(m.final), x = Len(merges))

\* C8 witness: a page expecting 3 questions got none from its final attempt
\* and no gap adjustment, and 3 entries were appended for it.
C8_Witness ==
    \E x \in 1..Len(merges) :
        LET m == merges[x] IN
        /\ ~GapApplies(m)
        /\ Len(m.expected) = 3
        /\ m.final = <<>>
        /\ m.fill = 3

\* C9: with quota N the run suspends for the 30-unit cooldown exactly after
\* the call that brings the call counter to a positive multiple of N, and
\* no call is issued before the cooldown has elapsed; the calls that bring
\* the counter to any other value are not followed by a cooldown.
C9_Quota ==
    [][/\ gLlmCalls' # gLlmCalls
            => /\ gLlmCalls' = gLlmCalls + 1
               /\ sleep_remaining = 0
               /\ sleep_remaining' = IF gLlmCalls' % max_quota = 0 THEN 30 ELSE 0
       /\ sleep_remaining' > 0 => gLlmCalls' # gLlmCalls
       /\ sleep_remaining > 0
            => /\ issued' = issued
               /\ gLlmCalls' = gLlmCalls
               /\ sleep_remaining' = 0]_vars

\* C9 witness: the run is suspended after the call that brought the counter
\* to twice the quota.
C9_Witness ==
    /\ sleep_remaining = 30
    /\ gLlmCalls = 2 * max_quota

\* The inference calls issued so far by the call sites handle_quota follows.
CountedCalls ==
    issued["extract_page_text"] + issued["extract_clinical_cases"]
    + issued["extract_each_page_questions"] + issued["extract_document_text"]
    + issued["review_document_text"] + issued["questions_markdown_formatter"]
    + issued["extract_document_pages_data"] + issued["extract_document_clinical_case"]

\* The inference calls issued so far by the call sites no handle_quota follows.
UncountedCalls ==
    issued["extract_questions_numbers"] + issued["review_questions_numbers"]
    + issued["remove_clinical_cases_from_page_text"]
    + issued["extract_questions_using_numbers"]
    + issued["questions_markdown_formatter.parse"]

\* C10 (as claimed): the call counter equals the number of inference calls
\* the orchestrator instance has issued, whatever stage issued them.
C10_CounterCountsEveryCall ==
    gLlmCalls = CountedCalls + UncountedCalls

\* C10 (amended): the call counter equals the number of calls issued by page
\* text extraction, clinical-case detection, the reconciliation attempts and,
\* in the document-level workflow, by each stage's first call; the calls of
\* number detection, number review, clinical-case stripping, windowed
\* extraction and the formatter's structured parse are not counted.
C10_CounterCountsQuotaCalls ==
    gLlmCalls = CountedCalls

\* C10 witness: a page-by-page run ended having issued calls of every kind,
\* counted and uncounted.
C10_Witness ==
    /\ workflow = "Workflow"
    /\ node = "END"
    /\ \A site \in {"extract_page_text", "extract_questions_numbers",
                    "review_questions_numbers", "extract_clinical_cases",
                    "remove_clinical_cases_from_page_text",
                    "extract_questions_using_numbers",
                    "extract_each_page_questions"} : issued[site] > 0
    /\ gLlmCalls = CountedCalls
    /\ UncountedCalls > 0

\* C11: the reconciliation of a page issues at least 1 and at most 3 parse
\* attempts, and none after the first attempt whose question count equals
\* the expected count.
C11_Attempts ==
    /\ Len(attempts) <= 3
    /\ \A k \in 1..Len(attempts) : attempts[k] => k = Len(attempts)
    /\ (node = "extract_each_page_questions" /\ loop_pc = "after")
          => Len(attempts) >= 1
    /\ (node = "extract_each_page_questions" /\ loop_pc = "loop"
        /\ sleep_remaining = 0 /\ Len(attempts) < 3)
          => \A k \in 1..Len(attempts) : ~attempts[k]

\* C11 witness: the loop is left after a second attempt, the first whose
\* count matched.
C11_Witness ==
    /\ node = "extract_each_page_questions"
    /\ loop_pc = "after"
    /\ attempts = <<FALSE, TRUE>>

\* C12: a failing inference call aborts the run: the run never reaches END,
\* its caller gets exactly one failure signal, which carries the cause, and
\* nothing of what was extracted so far.
C12_FailureAborts ==
    [][/\ (error = "" /\ error' = "InferenceError") => node' = "FAILED"
       /\ (node = "FAILED" /\ runs' = runs)
            => /\ node' = "FAILED"
               /\ error' = error
               /\ result.kind = "exception" => result' = result
       /\ (node = "FAILED" /\ result' # result /\ runs' = runs)
            => result' = [kind |-> "exception", status_code |-> 500,
                          detail |-> <<"Error processing PDF: ", error>>]]_vars

\* C12 witness: an inference call failed after questions had been merged,
\* and the caller got the failure signal.
C12_Witness ==
    /\ node = "FAILED"
    /\ error = "InferenceError"
    /\ Len(exam_questions) > 0
    /\ result.kind = "exception"

\* C13: the engine counts the nodes it runs; once it has run 120 without
\* reaching END it runs no further node but aborts the run, and the caller
\* gets no output for that run.
C13_StepCeiling ==
    [][/\ steps' <= 120
       /\ (steps' # steps /\ runs' = runs) => (steps' = steps + 1 /\ node' # node)
       /\ (steps = 120 /\ node \notin {"END", "FAILED"})
            => /\ node' = "FAILED"
               /\ error' = "GraphRecursionError"
               /\ exam_questions' = exam_questions
               /\ issued' = issued
       /\ (error = "GraphRecursionError" /\ result' # result /\ runs' = runs)
            => result'.kind = "exception"]_vars

\* C13 witness: a run was aborted at the ceiling and its caller got the
\* failure signal.
C13_Witness ==
    /\ error = "GraphRecursionError"
    /\ steps = 120
    /\ result.kind = "exception"

\* text occurs in the token sequence seq
Contains(seq, text) ==
    \E o \in 0..(Len(seq) - Len(text)) :
        \A k \in 1..Len(text) : seq[o + k] = text[k]

\* The pages whose text the window of page c of an n-page run is built from.
WindowPages(c, n) ==
    IF n = 1 THEN {0}
    ELSE IF c = 0 THEN {0, 1}
    ELSE IF c = n - 1 THEN {n - 2, n - 1}
    ELSE {c, c + 1}

\* C14: once clinical-case stripping has run for a page, the page text is
\* the collaborator's rewrite, and the concatenated text and every window
\* that includes the page hold the rewrite and not the text before it.
C14_StrippedTextUsed ==
    workflow = "Workflow" =>
    \A i \in DOMAIN stripped :
        /\ pages_text[i + 1] = stripped[i].after
        /\ Len(pages_clinical_cases_map[PageKey(i)]) >= 1
        /\ current_phase = "extract_each_page_questions"
              => /\ Contains(pages_text_concatenated, stripped[i].after)
                 /\ ~Contains(pages_text_concatenated, stripped[i].before)
        /\ (node = "extract_each_page_questions"
            /\ i \in WindowPages(current_page_index, exam_images))
              => /\ Contains(concatenated_pages_text, stripped[i].after)
                 /\ ~Contains(concatenated_pages_text, stripped[i].before)

\* C14 witness: page 0 of a 3-page run was stripped of its clinical case and
\* the window of page 0 has been built.
C14_Witness ==
    /\ node = "extract_each_page_questions"
    /\ exam_images = 3
    /\ current_page_index = 0
    /\ 0 \in DOMAIN stripped
    /\ stripped[0].before # stripped[0].after
    /\ Contains(concatenated_pages_text, stripped[0].after)

\* The keys of the pages of the run.
PageKeys == {PageKey(i) : i \in 0..(exam_images - 1)}

\* C15: at END of a run over N >= 1 pages, `questions` holds every entry the
\* reconciliations appended, placeholders included, the clinical-case map
\* and the number map have an entry for every page index 0..N-1, and there
\* are exactly N page texts; the caller's response carries all the questions.
C15_Output ==
    (workflow = "Workflow" /\ node = "END") =>
        /\ Len(merges) = exam_images
        /\ merges[1].before = 0
        /\ Len(exam_questions)
              = merges[Len(merges)].before + Len(merges[Len(merges)].final)
                + merges[Len(merges)].fill
        /\ \A x \in 1..Len(merges) :
              /\ AppendedBy(merges[x], merges[x].fill, x = Len(merges))
              /\ x < Len(merges)
                    => merges[x + 1].before
                         = merges[x].before + Len(merges[x].final) + merges[x].fill
        /\ DOMAIN pages_clinical_cases_map = PageKeys
        /\ DOMAIN pages_questions_map = PageKeys
        /\ Len(pages_text) = exam_images
        /\ result # NoResult
              => /\ result.kind = "response"
                 /\ result.total_questions = Len(exam_questions)
                 /\ \A k \in 1..Len(exam_questions) :
                       result.questions[k].questionString = exam_questions[k].question
                 /\ Len(result.page_numbers) = exam_images

\* C15 witness: a 3-page run ended with placeholders among its questions
\* and a clinical case on a page, and the caller got the response.
C15_Witness ==
    /\ workflow = "Workflow"
    /\ node = "END"
    /\ exam_images = 3
    /\ \E x \in 1..Len(merges) : merges[x].fill > 0
    /\ \E key \in DOMAIN pages_clinical_cases_map :
          pages_clinical_cases_map[key] # <<>>
    /\ result.kind = "response"

\* C16: when countDiff after the gap adjustment is 0 or at least 8, the
\* reconciliation appends the questions of the final attempt and nothing
\* else, raises no error, and the run goes on to the next transition.
C16_NoFillOutsideRange ==
    [][Len(merges') = Len(merges) + 1
         => LET m == merges'[Len(merges')] IN
            (CountDiff(m) = 0 \/ CountDiff(m) >= 8)
               => /\ exam_questions' = exam_questions \o response
                  /\ m.fill = 0
                  /\ error' = ""
                  /\ node' = IF current_page_index < exam_images - 1
                             THEN "advance_page" ELSE "END"]_vars

\* C16 witness: a page expecting [1,2,3] whose final attempt returned
\* nothing, followed by a page starting at 9: countDiff is 3 + 5 = 8 and no
\* placeholder was appended.
C16_Witness ==
    \E x \in 1..Len(merges) :
        LET m == merges[x] IN
        /\ m.expected = <<1, 2, 3>>
        /\ m.final = <<>>
        /\ GapApplies(m)
        /\ CountDiff(m) = 8
        /\ m.fill = 0
        /\ error = ""

\* C17: a further run() on the instance keeps the call counter and nothing
\* else: it starts at page 0 in the metadata phase with no page text, no
\* number lists, no clinical cases and no questions, and the cooldown falls
\* on every quota-th call of the instance, counted across runs.
C17_OnlyCounterSurvives ==
    [][/\ runs' # runs
            => /\ runs' = runs + 1
               /\ gLlmCalls' = gLlmCalls
               /\ max_quota' = max_quota
               /\ node' = "start"
               /\ current_page_index' = 0
               /\ current_phase' = "extract_page_text"
               /\ pages_text' = <<>>
               /\ pages_text_concatenated' = <<>>
               /\ pages_questions_map' = <<>>
               /\ pages_questions_text_map' = <<>>
               /\ pages_clinical_cases_map' = <<>>
               /\ exam_questions' = <<>>
               /\ error' = ""
       /\ (runs > 1 /\ gLlmCalls' # gLlmCalls)
            => /\ gLlmCalls' = gLlmCalls + 1
               /\ (sleep_remaining' > 0) = (gLlmCalls' % max_quota = 0)]_vars

\* C17 witness: the first counted call of the second run of an instance
\* triggers the cooldown.
C17_Witness ==
    /\ runs = 2
    /\ node = "extract_page_text"
    /\ current_page_index = 0
    /\ pages_text = <<>>
    /\ sleep_remaining = 30
    /\ gLlmCalls % max_quota = 0

\* C18: while a cooldown is in progress the only thing that happens is its
\* end: no inference call is issued or counted, no page is advanced, nothing
\* is merged and no run starts; the one stage that was suspended resumes, and
\* at most one stage completes per step.
C18_CooldownBlocks ==
    [][/\ sleep_remaining > 0
            => /\ sleep_remaining' = 0
               /\ issued' = issued
               /\ gLlmCalls' = gLlmCalls
               /\ current_page_index' = current_page_index
               /\ exam_questions' = exam_questions
               /\ runs' = runs
               /\ error' = error
               /\ node \in {"extract_page_text", "extract_clinical_cases",
                            "extract_each_page_questions", "extract_document_text",
                            "review_document_text", "questions_markdown_formatter",
                            "extract_document_pages_data",
                            "extract_document_clinical_case"}
       /\ (sleep_remaining' > 0) => node' = node
       /\ runs' = runs => steps' \in {steps, steps + 1}]_vars

\* C18 witness: a cooldown is in progress in the reconciliation of a page
\* that is not the last.
C18_Witness ==
    /\ sleep_remaining > 0
    /\ node = "extract_each_page_questions"
    /\ current_page_index < exam_images - 1

\* C19 (as claimed): START leads to page-text extraction, whose direct
\* successor is number detection, and every source and target of the edge
\* table is a registered node; number detection runs for a page right after
\* the page's text was appended.
C19_TargetsRegistered ==
    /\ edges["start"] = "extract_page_text"
    /\ edges["extract_page_text"] = "extract_questions_numbers"
    /\ \A n \in DOMAIN edges : n \in nodes /\ edges[n] \in nodes
    /\ (workflow = "Workflow" /\ node = "extract_questions_numbers")
          => Len(pages_text) = current_page_index + 1

\* C20: after clinical-case detection on page i of N the next node is the
\* stripping iff page i has a detected case and i < N-1, the page advance iff
\* it has none and i < N-1, and the text concatenation iff i = N-1; so the
\* stripping is entered only with a case found and pages remaining.
C20_AfterDetection ==
    [][(node = "extract_clinical_cases" /\ node' \notin {node, "FAILED"})
         => LET i == current_page_index
                found == Len(pages_clinical_cases_map'[PageKey(i)]) >= 1
            IN /\ node' \in {"remove_clinical_cases_from_page_text",
                             "advance_page", "concatenate_pages_text"}
               /\ (node' = "remove_clinical_cases_from_page_text")
                     = (found /\ i < exam_images - 1)
               /\ (node' = "advance_page") = (~found /\ i < exam_images - 1)
               /\ (node' = "concatenate_pages_text") = (i = exam_images - 1)
               /\ current_page_index' = i]_vars

\* C20 witness: the last page of a 2-page run has a detected clinical case
\* and the run is at the text concatenation.
C20_Witness ==
    /\ node = "concatenate_pages_text"
    /\ exam_images = 2
    /\ current_page_index = 1
    /\ pages_clinical_cases_map["1"] = <<"case">>

\* C21: after the reconciliation of page i of N the cursor is unchanged and
\* the run goes to END when i = N-1; when i < N-1 it goes to the page
\* advance, which increments the cursor by exactly 1 and leads to the
\* windowed extraction of page i+1.
C21_AfterReconciliation ==
    [][/\ (node = "extract_each_page_questions" /\ node' \notin {node, "FAILED"})
            => /\ current_page_index' = current_page_index
               /\ node' = IF current_page_index < exam_images - 1
                          THEN "advance_page" ELSE "END"
       /\ (node = "advance_page" /\ current_phase = "extract_each_page_questions"
           /\ node' \notin {node, "FAILED"})
            => /\ current_page_index' = current_page_index + 1
               /\ current_page_index' = Len(merges)
               /\ node' = "extract_questions_using_numbers"]_vars

\* C21 witness: the windowed extraction of page 1 is next, after the
\* reconciliation of page 0.
C21_Witness ==
    /\ node = "extract_questions_using_numbers"
    /\ current_page_index = 1
    /\ Len(merges) = 1

\* The metadata-pass inputs of the page advance: N pages, cursor i.
AdvanceInputs == {<<i, n>> \in (0..(MaxPages - 1)) \X (1..MaxPages) : i < n}

RECURSIVE JoinedInPageOrder(_, _)
\* The first n page texts, each two neighbours separated by a newline.
JoinedInPageOrder(texts, n) ==
    IF n = 0 THEN <<>>
    ELSE IF n = 1 THEN texts[1]
    ELSE JoinedInPageOrder(texts, n - 1) \o <<"\n">> \o texts[n]

\* C23: the text concatenation resets the cursor to 0, sets the concatenated
\* text to all page texts joined in page order with a newline between them,
\* sets the content phase, changes no page text, and is always followed by
\* the windowed extraction.
C23_Concatenation ==
    [][(node = "concatenate_pages_text" /\ node' \notin {node, "FAILED"})
         => /\ current_page_index' = 0
            /\ pages_text_concatenated' = JoinedInPageOrder(pages_text, Len(pages_text))
            /\ Len(pages_text) = exam_images
            /\ pages_text' = pages_text
            /\ current_phase' = "extract_each_page_questions"
            /\ node' = "extract_questions_using_numbers"]_vars

\* C23 witness: the three page texts of a run were concatenated and the
\* windowed extraction of page 0 is next.
C23_Witness ==
    /\ node = "extract_questions_using_numbers"
    /\ current_page_index = 0
    /\ merges = <<>>
    /\ current_phase = "extract_each_page_questions"
    /\ pages_text_concatenated = <<"p0", "\n", "p1", "\n", "p2">>

\* C24: after the clinical-case stripping on page i of N the next node is
\* the page advance if i < N-1, else the text concatenation.
C24_AfterStripping ==
    /\ \A in \in AdvanceInputs :
          AfterRemoveClinicalCases(in[1], in[2])
             = IF in[1] < in[2] - 1 THEN "advance_page" ELSE "concatenate_pages_text"
    /\ (workflow = "Workflow" /\ node = "advance_page"
        /\ current_phase = "extract_page_text"
        /\ current_page_index \in DOMAIN stripped)
          => current_page_index < exam_images - 1

\* C24 witness: page 0 was stripped and the page advance is next.
C24_Witness ==
    /\ node = "advance_page"
    /\ current_phase = "extract_page_text"
    /\ current_page_index = 0
    /\ 0 \in DOMAIN stripped

\* C25: in a run over N >= 1 pages, within each pass the cursor changes only
\* by +1, at the page advance, from page 0 to page N-1 with every page in
\* between; it is set to 0 once,
\* at the text concatenation between the passes, when the metadata pass has
\* handled page N-1; one page is in hand at a time.
C25_PageOrder ==
    [][(workflow = "Workflow" /\ exam_images >= 1 /\ runs' = runs)
         => /\ current_page_index \in 0..(exam_images - 1)
            /\ current_page_index' # current_page_index
                 => \/ /\ node = "advance_page"
                       /\ current_page_index' = current_page_index + 1
                    \/ /\ node = "concatenate_pages_text"
                       /\ current_page_index' = 0
            /\ node = "concatenate_pages_text"
                 => /\ current_phase = "extract_page_text"
                    /\ current_page_index = exam_images - 1
                    /\ Len(pages_text) = exam_images
            /\ current_phase = "extract_page_text"
                 => Len(pages_text) \in {current_page_index, current_page_index + 1}
            /\ current_phase = "extract_each_page_questions"
                 => /\ current_phase' = current_phase
                    /\ node' # "concatenate_pages_text"
                    /\ Len(merges) \in {current_page_index, current_page_index + 1}
                    /\ \A x \in 1..Len(merges) : merges[x].page = x - 1
            /\ node' = "END"
                 => /\ current_page_index' = exam_images - 1
                    /\ Len(merges') = exam_images]_vars

\* C25 witness: a 3-page run ended, its cursor on page 2 after both passes.
C25_Witness ==
    /\ workflow = "Workflow"
    /\ node = "END"
    /\ exam_images = 3
    /\ current_page_index = 2
    /\ Len(pages_text) = 3
    /\ Len(merges) = 3

\* C26: when the text concatenation or a content-pass stage is in hand, the
\* metadata pass is complete for every page 0..N-1: N page texts, and a
\* reviewed number list and a clinical-case list for every page; before
\* that, nothing of the content pass exists.
C26_MetadataFirst ==
    workflow = "Workflow" =>
        /\ (\/ node \in {"concatenate_pages_text", "extract_questions_using_numbers",
                         "extract_each_page_questions"}
            \/ current_phase = "extract_each_page_questions"
            \/ merges # <<>>
            \/ pages_questions_text_map # <<>>)
              => /\ Len(pages_text) = exam_images
                 /\ reviewed = 0..(exam_images - 1)
                 /\ DOMAIN pages_questions_map = PageKeys
                 /\ DOMAIN pages_clinical_cases_map = PageKeys
        /\ (node = "extract_each_page_questions" /\ current_page_index + 1 < exam_images)
              => /\ current_page_index + 1 \in reviewed
                 /\ PageKey(current_page_index + 1) \in DOMAIN pages_questions_map

\* C26 witness: the reconciliation of page 0 is about to evaluate the gap
\* to page 1, whose reviewed list [9] is stored.
C26_Witness ==
    /\ node = "extract_each_page_questions"
    /\ loop_pc = "after"
    /\ exam_images = 2
    /\ current_page_index = 0
    /\ 1 \in reviewed
    /\ StoredNumbers(1) = <<9>>

\* C27: `questions` changes only in the reconciliation, and only by
\* appending the questions of the final attempt followed by placeholders to
\* the unmodified previous list; it is empty throughout the metadata pass.
C27_QuestionsAppendOnly ==
    [][runs' = runs
         => /\ current_phase = "extract_page_text" => exam_questions = <<>>
            /\ exam_questions' # exam_questions
                 => /\ node = "extract_each_page_questions"
                    /\ loop_pc = "after"
                    /\ Len(exam_questions') >= Len(exam_questions) + Len(response)
                    /\ SubSeq(exam_questions', 1, Len(exam_questions)) = exam_questions
                    /\ SubSeq(exam_questions', Len(exam_questions) + 1,
                              Len(exam_questions) + Len(response)) = response
                    /\ \A k \in (Len(exam_questions) + Len(response) + 1)
                                 ..Len(exam_questions') :
                          IsFilling(exam_questions'[k])]_vars

\* C27 witness: the reconciliation of a second page appended a parsed
\* question and a placeholder behind the entries of the first page.
C27_Witness ==
    /\ Len(merges) = 2
    /\ merges[2].before > 0
    /\ Len(merges[2].final) > 0
    /\ merges[2].fill > 0
    /\ Len(exam_questions) = merges[2].before + Len(merges[2].final) + merges[2].fill

\* The numbers of expected that are not among got, in the order of expected.
RECURSIVE AbsentFrom(_, _)
AbsentFrom(expected, got) ==
    IF expected = <<>> THEN <<>>
    ELSE IF expected[1] \in {got[k] : k \in 1..Len(got)}
         THEN AbsentFrom(Tail(expected), got)
         ELSE <<expected[1]>> \o AbsentFrom(Tail(expected), got)

\* C28: the first attempt of a page carries no corrective feedback; attempt
\* k = 2 or 3 carries exactly the expected numbers absent from the numbers
\* attempt k-1 returned, in the order of the expected list.
C28_Feedback ==
    (workflow = "Workflow" /\ Len(returned) >= 1) =>
        /\ Len(returned) = 1 => review = [failed |-> FALSE]
        /\ Len(returned) >= 2
              => review = [failed |-> TRUE,
                           missing |-> AbsentFrom(StoredNumbers(current_page_index),
                                                  returned[Len(returned) - 1])]

\* C28 witness: the third attempt of a page expecting [1,2,3] carried the
\* feedback [3], after a first attempt that returned nothing and a second
\* that returned [1,2].
C28_Witness ==
    /\ Len(returned) = 3
    /\ StoredNumbers(current_page_index) = <<1, 2, 3>>
    /\ returned[1] = <<>>
    /\ returned[2] = <<1, 2>>
    /\ review = [failed |-> TRUE, missing |-> <<3>>]

\* C29: when all 3 attempts of a page return a count other than the
\* expected one, the questions merged are those of the third attempt, and
\* countDiff, the gap adjustment and the placeholders are computed from it.
C29_LastAttemptMerged ==
    [][(Len(merges') = Len(merges) + 1 /\ attempts = <<FALSE, FALSE, FALSE>>)
         => LET m == merges'[Len(merges')] IN
            /\ Len(returned) = 3
            /\ m.final = returned[3]
            /\ Numbers(SubSeq(exam_questions', Len(exam_questions) + 1,
                              Len(exam_questions) + Len(returned[3]))) = returned[3]
            /\ m.fill = IF 0 < CountDiff(m) /\ CountDiff(m) < 8 THEN CountDiff(m) ELSE 0
            /\ Len(exam_questions') = Len(exam_questions) + Len(returned[3]) + m.fill]_vars

\* C29 witness: three failed attempts returned [1,2], [1,2,3,20] and
\* nothing, and the merge appended three placeholders and no question.
C29_Witness ==
    /\ Len(merges) = 1
    /\ exam_images = 1
    /\ merges[1].expected = <<1, 2, 3>>
    /\ merges[1].final = <<>>
    /\ merges[1].fill = 3
    /\ Len(exam_questions) = 3

RECURSIVE StoredCount(_)
\* The lengths of the number lists stored for pages 0..i-1, summed.
StoredCount(i) ==
    IF i = 0 THEN 0 ELSE StoredCount(i - 1) + Len(StoredNumbers(i - 1))

\* C30: the start number given to page-text extraction for page i is 1 plus
\* the sum of the lengths of the number lists stored for pages 0..i-1, 1 for
\* page 0; the stage appends its result as the text of page i, after which
\* there are exactly i+1 page texts.
C30_StartNumber ==
    [][(workflow = "Workflow" /\ node = "extract_page_text"
        /\ node' \notin {"FAILED"} /\ runs' = runs)
         => /\ sleep_remaining = 0
                 => total_prev_questions' = 1 + StoredCount(current_page_index)
            /\ node' # node
                 => /\ Len(pages_text') = current_page_index + 1
                    /\ SubSeq(pages_text', 1, current_page_index) = pages_text
                    /\ total_prev_questions' = 1 + StoredCount(current_page_index)
                    /\ node' = "extract_questions_numbers"]_vars

\* C30 witness: the text of page 2 was extracted with start number 6, after
\* pages holding 3 and 2 question numbers.
C30_Witness ==
    /\ node = "extract_questions_numbers"
    /\ current_page_index = 2
    /\ total_prev_questions = 6
    /\ Len(pages_text) = 3

\* C31: the clinical-case stripping replaces only the text of the page under
\* the cursor, with the collaborator's rewrite: the text of every other page,
\* the number lists, the clinical cases (those of the stripped page
\* included), the cursor, the phase and `questions` are unchanged.
C31_StrippingFrame ==
    [][(node = "remove_clinical_cases_from_page_text" /\ node' \notin {node, "FAILED"})
         => /\ current_page_index \in DOMAIN stripped'
            /\ Len(pages_text') = Len(pages_text)
            /\ pages_text'[current_page_index + 1] = stripped'[current_page_index].after
            /\ \A k \in 1..Len(pages_text) :
                  k # current_page_index + 1 => pages_text'[k] = pages_text[k]
            /\ pages_questions_map' = pages_questions_map
            /\ pages_clinical_cases_map' = pages_clinical_cases_map
            /\ Len(pages_clinical_cases_map[PageKey(current_page_index)]) > 0
            /\ current_page_index' = current_page_index
            /\ current_phase' = current_phase
            /\ exam_questions' = exam_questions]_vars

\* C31 witness: page 1 was stripped; it holds the rewrite, page 0 its own
\* extracted text, and the detected case of page 1 is still stored.
C31_Witness ==
    /\ node = "advance_page"
    /\ current_page_index = 1
    /\ 1 \in DOMAIN stripped
    /\ 0 \notin DOMAIN stripped
    /\ stripped[1].after = <<"s1">>
    /\ pages_text = << <<"p0">>, <<"s1">> >>
    /\ pages_clinical_cases_map[PageKey(1)] = <<"case">>

\* The numbers first, first+1, ..., last; none when last < first.
FromTo(first, last) ==
    [k \in 1..(IF last < first THEN 0 ELSE last - first + 1) |-> first + k - 1]

C33_NeverOutOfSteps ==
    (workflow = "Workflow" /\ exam_images >= 1) => error # "GraphRecursionError"

\* The shortfall of the final attempt of the merge m.
Shortfall(m) == Len(m.expected) - Len(m.final)

\* C34 (as claimed): if the final attempt of a page returns fewer questions
\* than expected by d with 0 < d < 8, at least d placeholders are appended
\* for that page, whatever the gap to the next page is.
C34_FilledWhenShort ==
    \A x \in 1..Len(merges) :
        (0 < Shortfall(merges[x]) /\ Shortfall(merges[x]) < 8)
           => merges[x].fill >= Shortfall(merges[x])

\* C34 (amended): if the final attempt of a page returns fewer questions
\* than expected by d with 0 < d < 8, the placeholders appended are d plus
\* the gap adjustment when that sum is below 8, hence at least d, and none
\* when the sum is 8 or more; without gap adjustment exactly d are appended.
C34_FilledWhenSumBelowLimit ==
    [][Len(merges') = Len(merges) + 1
         => LET m == merges'[Len(merges')]
                d == Shortfall(m)
                adjustment == IF GapApplies(m) THEN Gap(m) - 1 ELSE 0
                appended == Len(exam_questions') - Len(exam_questions) - Len(m.final)
            IN (0 < d /\ d < 8)
                 => /\ appended = m.fill
                    /\ d + adjustment < 8 => (appended = d + adjustment /\ appended >= d)
                    /\ d + adjustment >= 8 => appended = 0
                    /\ ~GapApplies(m) => appended = d]_vars

\* C34 witness: a page expecting [1,2,3] whose final attempt returned [1,2],
\* followed by a page starting at 9: 1 + 5 = 6 placeholders were appended.
C34_Witness ==
    \E x \in 1..Len(merges) :
        LET m == merges[x] IN
        /\ m.expected = <<1, 2, 3>>
        /\ m.final = <<1, 2>>
        /\ GapApplies(m)
        /\ Gap(m) = 6
        /\ m.fill = 6

\* Page i has at least one detected clinical case.
HasCases(i) ==
    /\ PageKey(i) \in DOMAIN pages_clinical_cases_map
    /\ Len(pages_clinical_cases_map[PageKey(i)]) >= 1

\* C35 (as claimed): every page with at least one detected clinical case has
\* had the stripping executed for it before the content pass reads its text,
\* the last page and the only page of a single-page document included.
C35_EveryPageStripped ==
    (workflow = "Workflow" /\ current_phase = "extract_each_page_questions")
       => \A i \in 0..(exam_images - 1) : HasCases(i) => i \in DOMAIN stripped

\* C35 (amended): every page with at least one detected clinical case other
\* than the last has had the stripping executed for it before the content
\* pass reads its text; the last page, and so the only page of a single-page
\* document, is never stripped and is read as it was extracted.
C35_AllButLastStripped ==
    (workflow = "Workflow"
     /\ (\/ current_phase = "extract_each_page_questions"
         \/ node = "concatenate_pages_text"))
       => /\ \A i \in 0..(exam_images - 2) :
                HasCases(i) => /\ i \in DOMAIN stripped
                               /\ pages_text[i + 1] = stripped[i].after
          /\ (exam_images - 1) \notin DOMAIN stripped
          /\ pages_text[exam_images] \in PageTextChoices(exam_images - 1)
          /\ current_phase = "extract_each_page_questions"
                => Contains(pages_text_concatenated, pages_text[exam_images])

\* C35 witness: both pages of a 2-page run have a detected case; in the
\* content pass page 0 holds the rewrite and page 1 its extracted text.
C35_Witness ==
    /\ workflow = "Workflow"
    /\ exam_images = 2
    /\ node = "extract_each_page_questions"
    /\ HasCases(0)
    /\ HasCases(1)
    /\ DOMAIN stripped = {0}
    /\ pages_text = << <<"s0">>, <<"p1">> >>

\* The parse loop of the page under the cursor has ended and the merge is next.
LoopEnded ==
    /\ workflow = "Workflow"
    /\ node = "extract_each_page_questions"
    /\ loop_pc = "after"
    /\ sleep_remaining = 0

\* C36 (as claimed): every parsed question merged for page i has a number of
\* page i's expected list, and an attempt is accepted as successful only if
\* it returned exactly the expected numbers.
C36_ExpectedNumbersOnly ==
    /\ \A x \in 1..Len(merges) :
          \A k \in 1..Len(merges[x].final) :
             \E e \in 1..Len(merges[x].expected) :
                merges[x].final[k] = merges[x].expected[e]
    /\ (LoopEnded /\ ~hasFailed) => Numbers(response) = Expected

\* C36 (amended): the parsed questions merged for page i are those of the
\* final attempt, whatever their numbers; an attempt is accepted as
\* successful exactly when it returned as many questions as page i expects,
\* and the loop goes on only after attempts of another count.
C36_CountOnly ==
    /\ \A x \in 1..Len(merges) :
          LET m == merges[x] IN
          /\ Len(exam_questions) >= m.before + Len(m.final)
          /\ Numbers(SubSeq(exam_questions, m.before + 1, m.before + Len(m.final)))
                = m.final
    /\ LoopEnded
         => /\ Len(returned) \in 1..3
            /\ Numbers(response) = returned[Len(returned)]
            /\ hasFailed = (Len(returned[Len(returned)]) # Len(Expected))
            /\ hasFailed => Len(returned) = 3
            /\ \A k \in 1..(Len(returned) - 1) : Len(returned[k]) # Len(Expected)
    /\ (workflow = "Workflow" /\ node = "extract_each_page_questions"
        /\ loop_pc = "loop" /\ sleep_remaining = 0)
         => \A k \in 1..Len(returned) : Len(returned[k]) # Len(Expected)

\* C36 witness: the first attempt of a page expecting [1,2,3] returned
\* [1,2,20] and was accepted.
C36_Witness ==
    /\ LoopEnded
    /\ ~hasFailed
    /\ Expected = <<1, 2, 3>>
    /\ returned = << <<1, 2, 20>> >>
    /\ Numbers(response) = <<1, 2, 20>>

\* C37: the phase starts as the metadata pass, changes to the content pass
\* exactly once per run, at the text concatenation, and never changes back;
\* the page advance is only entered with the cursor below the last index, so
\* it always increments the cursor and never sets the phase.
C37_PhaseOnce ==
    [][(workflow = "Workflow" /\ runs' = runs)
         => /\ node = "start" => current_phase = "extract_page_text"
            /\ current_phase' # current_phase
                 => /\ node = "concatenate_pages_text"
                    /\ current_phase = "extract_page_text"
                    /\ current_phase' = "extract_each_page_questions"
            /\ (node = "concatenate_pages_text" /\ node' \notin {node, "FAILED"})
                 => current_phase' # current_phase
            /\ node' = "END" => current_phase' = "extract_each_page_questions"
            /\ node = "advance_page" => current_page_index < exam_images - 1
            /\ (node = "advance_page" /\ node' \notin {node, "FAILED"})
                 => /\ current_page_index' = current_page_index + 1
                    /\ current_phase' = current_phase]_vars

\* C37 witness: a 3-page run ended in the content pass, after two page
\* advances in each pass and one concatenation.
C37_Witness ==
    /\ workflow = "Workflow"
    /\ runs = 1
    /\ node = "END"
    /\ exam_images = 3
    /\ current_phase = "extract_each_page_questions"
    /\ pages_text_concatenated # <<>>
    /\ current_page_index = 2

\* C38: the content-pass stages leave the metadata unchanged: the windowed
\* extraction writes only the question-text bucket of the page under the
\* cursor and the reconciliation writes only `questions`; neither modifies
\* the page texts, the number lists, the clinical cases or the cursor.
C38_ContentPassFrame ==
    [][(workflow = "Workflow" /\ runs' = runs
        /\ node \in {"extract_questions_using_numbers", "extract_each_page_questions"})
         => /\ pages_text' = pages_text
            /\ pages_text_concatenated' = pages_text_concatenated
            /\ pages_questions_map' = pages_questions_map
            /\ pages_clinical_cases_map' = pages_clinical_cases_map
            /\ current_page_index' = current_page_index
            /\ current_phase' = current_phase
            /\ node = "extract_questions_using_numbers"
                 => /\ exam_questions' = exam_questions
                    /\ node' \notin {node, "FAILED"}
                         => /\ DOMAIN pages_questions_text_map'
                                  = DOMAIN pages_questions_text_map
                                       \cup {PageKey(current_page_index)}
                            /\ \A key \in DOMAIN pages_questions_text_map :
                                  key # PageKey(current_page_index)
                                     => pages_questions_text_map'[key]
                                           = pages_questions_text_map[key]
            /\ node = "extract_each_page_questions"
                 => pages_questions_text_map' = pages_questions_text_map]_vars

\* C38 witness: the bucket of page 1 was written beside that of page 0,
\* after the reconciliation of page 0 had appended to `questions`.
C38_Witness ==
    /\ workflow = "Workflow"
    /\ node = "extract_each_page_questions"
    /\ current_page_index = 1
    /\ DOMAIN pages_questions_text_map = {"0", "1"}
    /\ Len(merges) = 1
    /\ Len(exam_questions) > 0
    /\ Len(pages_text) = exam_images

\* C39: a run started with zero pages never reaches END and produces no
\* output: its first stage, page-text extraction at cursor 0, fails because
\* there is no page at index 0, before any inference call is issued or
\* counted.
C39_ZeroPages ==
    [][(workflow = "Workflow" /\ exam_images = 0 /\ runs' = runs)
         => /\ node \in {"start", "extract_page_text", "FAILED"}
            /\ node' # "END"
            /\ node = "start" => node' \in {"start", "extract_page_text"}
            /\ (node = "extract_page_text" /\ node' # node)
                 => /\ node' = "FAILED"
                    /\ error' = "IndexError"
                    /\ current_page_index = 0
            /\ issued' = issued
            /\ gLlmCalls' = gLlmCalls
            /\ gLlmCalls = 0
            /\ sleep_remaining' = 0
            /\ exam_questions' = <<>>
            /\ pages_text' = <<>>
            /\ result' # result => result'.kind = "exception"]_vars

\* C39 witness: a zero-page run has failed at page-text extraction with no
\* call issued or counted.
C39_Witness ==
    /\ workflow = "Workflow"
    /\ exam_images = 0
    /\ node = "FAILED"
    /\ error = "IndexError"
    /\ pages_text = <<>>
    /\ gLlmCalls = 0
    /\ \A site \in CallSites : issued[site] = 0

====
